---- MODULE Spec2Model ----
(***************************************************************************)
(* A model of the NBA statistics import scripts: the season labelling of   *)
(* game dates, the team_stats / player_stats upserts of DatabaseManager,   *)
(* the CSV aggregation of StatsImporter and of the stand-alone player      *)
(* statistics importers, the import_nba_data entry point and the           *)
(* /predict-game endpoint of the prediction service.                       *)
(*                                                                         *)
(* Strings built by the code (season labels) are sequences of one-         *)
(* character strings, so that str(), slicing and concatenation are         *)
(* computed and not assumed.  A CSV file is a sequence of rows.            *)
(***************************************************************************)
EXTENDS Integers, Sequences, FiniteSets, TLC

VARIABLES
    \* --- the database (src/data_import/database.py)
    team_stats,      \* rows of table team_stats
    player_stats,    \* rows of table player_stats
    nextId,          \* source of gen_random_uuid(): ids handed out so far
    lastCall,        \* the last create_*_stats call: its name and argument
    calls,           \* number of create_*_stats calls made directly
    \* --- season labelling of one CSV row
    seasonRow,       \* the row: [year, month, gameType]
    gameLabel,       \* GameImporter._extract_season's label of it, or NoLabel
    statsLabel,      \* StatsImporter's season label of it, or NoLabel
    \* --- StatsImporter (src/data_import/stats_importer.py)
    teamCsv,         \* the rows of TeamStatistics.csv
    playerCsv,       \* the rows of PlayerStatistics.csv
    runsTeam,        \* completed runs of import_team_stats_from_csv
    runsPlayer,      \* completed runs of import_player_stats_from_csv
    written,         \* the records the last import run passed to the database,
                     \* each with the group it was computed from
    stats_created,   \* StatsImporter.stats_created after the last run
    stats_skipped,   \* StatsImporter.stats_skipped after the last run
    \* --- the stand-alone player statistics importers
    impCsv,          \* the rows of the PlayerStatistics.csv they are run on
    impResult,       \* per importer: whether it ran, and the player_stats it left
    \* --- import_nba_data (src/import_nba_data.py)
    dataDirExists,   \* whether the directory data exists
    filesPresent,    \* the CSV files that exist in it
    pc,              \* where main / import_all_data stands
    importerCreated, \* whether main constructed NBADataImporter
    reported,        \* the error main printed before returning, or None
    connection,      \* DatabaseManager.connection: None, "open" or "closed"
    log,             \* the calls import_all_data made and how each ended
    raised,          \* the call whose exception is on its way to the caller, or None
    imported,        \* the steps whose importer ran and returned
    \* --- the prediction service (src/ml_service/prediction_service.py)
    games,           \* the ids of the rows of table games
    request,         \* the game_id of the last POST /predict-game, or None
    reqEnv,          \* what the environment did during that request
    response,        \* the response to it
    answered,        \* number of requests answered
    model_metadata,  \* the loaded model_metadata.json: [best_threshold], in percent
    responseBody,    \* the PredictionResponse of the last request, if it succeeded
    \* --- the retraining pipeline (src/scripts/retraining_pipeline.py)
    now,             \* the clock, in days
    files,           \* content of every model file, 0 when it does not exist
    backups,         \* the backup directories: [backup_path, held]
    retraining_log,  \* retraining_log.json
    events,          \* what the last pipeline command did, in order
    ops,             \* number of pipeline commands run
    lastOp,          \* the last command, what it returned, the files before it
    \* --- model monitoring (src/scripts/model_monitoring.py)
    monNow,          \* the clock, in days
    monitoring_file, \* model_monitoring_results.json
    savedEver,       \* every result a successful save was given, in order
    monSaves,        \* number of save_monitoring_results calls
    lastSave,        \* "saved" / "failed" right after a call, "none" otherwise
    \* --- start_services.py
    procs,           \* the processes running the script, in order of creation
    \* --- the database connection when writes fail
    in_failed_transaction,  \* the connection's transaction is aborted
    lastRun,         \* the groups the last StatsImporter run tried to write
    \* --- GameImporter and PlayerImporter
    gamesCsv,        \* Games.csv
    playersCsv,      \* Players.csv
    games_table,     \* table games
    players_table,   \* table players
    rowId,           \* source of gen_random_uuid() for the two tables
    importRuns,      \* runs of each import so far
    lastImport       \* what the last run created, and the table it found each time

dbVars     == <<team_stats, player_stats, nextId, lastCall, calls>>
seasonVars == <<seasonRow, gameLabel, statsLabel>>
statsVars  == <<teamCsv, playerCsv, runsTeam, runsPlayer, written,
                stats_created, stats_skipped>>
impVars    == <<impCsv, impResult>>
pipeVars   == <<dataDirExists, filesPresent, pc, importerCreated, reported,
                connection, log, raised, imported>>
predVars   == <<games, request, reqEnv, response, answered, model_metadata,
                responseBody>>
retrVars   == <<now, files, backups, retraining_log, events, ops, lastOp>>
monVars    == <<monNow, monitoring_file, savedEver, monSaves, lastSave>>
svcVars    == <<procs>>
txnVars    == <<in_failed_transaction, lastRun>>
dupVars    == <<gamesCsv, playersCsv, games_table, players_table, rowId, importRuns,
                lastImport>>
vars       == <<dbVars, seasonVars, statsVars, impVars, pipeVars, predVars, retrVars,
                monVars, svcVars, txnVars, dupVars>>

\* What an action of one part leaves alone.
notDb      == <<seasonVars, statsVars, impVars, pipeVars, predVars, retrVars,
                monVars, svcVars, txnVars, dupVars>>
notSeason  == <<dbVars, statsVars, impVars, pipeVars, predVars, retrVars,
                monVars, svcVars, txnVars, dupVars>>
notStats   == <<seasonVars, lastCall, calls, impVars, pipeVars, predVars, retrVars,
                monVars, svcVars, txnVars, dupVars>>
notImp     == <<dbVars, seasonVars, statsVars, pipeVars, predVars, retrVars,
                monVars, svcVars, txnVars, dupVars>>
notPipe    == <<dbVars, seasonVars, statsVars, impVars, predVars, retrVars,
                monVars, svcVars, txnVars, dupVars>>
notPred    == <<dbVars, seasonVars, statsVars, impVars, pipeVars, retrVars,
                monVars, svcVars, txnVars, dupVars>>
notRetr    == <<dbVars, seasonVars, statsVars, impVars, pipeVars, predVars,
                monVars, svcVars, txnVars, dupVars>>
notMon     == <<dbVars, seasonVars, statsVars, impVars, pipeVars, predVars, retrVars,
                svcVars, txnVars, dupVars>>
notSvc     == <<dbVars, seasonVars, statsVars, impVars, pipeVars, predVars, retrVars,
                monVars, txnVars, dupVars>>
notTxn     == <<seasonVars, impVars, pipeVars, predVars, retrVars, monVars, svcVars,
                dupVars>>
notDup     == <<dbVars, seasonVars, statsVars, impVars, pipeVars, predVars, retrVars,
                monVars, svcVars, txnVars>>

None == "none"
NoLabel == << >>      \* no season label computed yet (a label is never empty)

----------------------------------------------------------------------------
(* Python's str() of a non-negative integer and the slice s[2:].            *)

Digits == <<"0", "1", "2", "3", "4", "5", "6", "7", "8", "9">>

RECURSIVE Str(_)
Str(n) == IF n < 10 THEN <<Digits[n + 1]>>
          ELSE Str(n \div 10) \o <<Digits[(n % 10) + 1]>>

\* s[2:]
SliceFrom2(s) == SubSeq(s, 3, Len(s))

----------------------------------------------------------------------------
(* Season labels.                                                           *)

\* A variant whose season starts in November: month > 10.
ExtractSeasonFromNovember(year, month) ==
    IF month > 10
    THEN Str(year) \o <<"-">> \o SliceFrom2(Str(year + 1))
    ELSE Str(year - 1) \o <<"-">> \o SliceFrom2(Str(year))

\* GameImporter._extract_season(game_date)
GameImporter_extract_season(year, month) ==
    IF month >= 10
    THEN Str(year) \o <<"-">> \o SliceFrom2(Str(year + 1))
    ELSE Str(year - 1) \o <<"-">> \o SliceFrom2(Str(year))

\* StatsImporter: season_year = year, except Playoffs rows of April..June
StatsImporter_season_year(year, month, gameType) ==
    IF gameType = "Playoffs" /\ month >= 4 /\ month <= 6
    THEN year - 1
    ELSE year

\* StatsImporter: season = str(season_year) + '-' + str(season_year + 1)[2:]
StatsImporter_season(year, month, gameType) ==
    LET season_year == StatsImporter_season_year(year, month, gameType)
    IN  Str(season_year) \o <<"-">> \o SliceFrom2(Str(season_year + 1))

\* The stand-alone importers: season = str(year) + '-' + str(year + 1)[2:]
CalendarYear_season(year) ==
    Str(year) \o <<"-">> \o SliceFrom2(Str(year + 1))

----------------------------------------------------------------------------
(* The database tables.  A row keeps its id, its key columns and the stat   *)
(* columns the importers compute; createdAt / updatedAt are left out.       *)

FirstYear == 1998     \* first calendar year of the dates explored
NumYears  == 5        \* number of calendar years explored
MaxCalls  == 3        \* direct create_*_stats calls explored

Years     == FirstYear .. (FirstYear + NumYears - 1)
Months    == 1 .. 12
GameTypes == {"Regular Season", "Playoffs", "Preseason"}

TeamIds   == {"t1", "t2"}
PlayerIds == {"p1", "p2"}

\* The argument dictionaries of the direct upsert calls.
UpsertSeasons == {CalendarYear_season(FirstYear), CalendarYear_season(FirstYear + 1)}

\* The stat columns passed to the direct calls.
TeamStatValues ==
    { [gamesPlayed |-> 1, wins |-> 1, losses |-> 0],
      [gamesPlayed |-> 2, wins |-> 1, losses |-> 1] }

PlayerStatValues ==
    { [gamesPlayed |-> 1, pointsPerGame |-> <<10, 1>>],
      [gamesPlayed |-> 2, pointsPerGame |-> <<10, 1>>],
      [gamesPlayed |-> 2, pointsPerGame |-> <<25, 2>>] }

TeamStatsData ==
    { [teamId |-> t, season |-> s, gamesPlayed |-> v.gamesPlayed, wins |-> v.wins,
       losses |-> v.losses] :
        t \in TeamIds, s \in UpsertSeasons, v \in TeamStatValues }

PlayerStatsData ==
    { [playerId |-> p, season |-> s, seasonType |-> ty, gamesPlayed |-> v.gamesPlayed,
       pointsPerGame |-> v.pointsPerGame] :
        p \in PlayerIds, s \in UpsertSeasons, ty \in {"Regular Season", "Playoffs"},
        v \in PlayerStatValues }

\* ON CONFLICT ("teamId", season)
TeamKey(r) == <<r.teamId, r.season>>

\* ON CONFLICT ("playerId", season, "seasonType")
PlayerKey(r) == <<r.playerId, r.season, r.seasonType>>

\* A variant of the team upsert with no conflict clause: always inserts.
InsertTeamStatsAlways(table, id, d) ==
    table \cup {[id |-> id, teamId |-> d.teamId, season |-> d.season,
                 gamesPlayed |-> d.gamesPlayed, wins |-> d.wins, losses |-> d.losses]}

\* DatabaseManager.create_team_stats: INSERT ... ON CONFLICT DO UPDATE SET ...
UpsertTeamStats(table, id, d) ==
    IF \E r \in table : TeamKey(r) = TeamKey(d)
    THEN { IF TeamKey(r) = TeamKey(d)
           THEN [r EXCEPT !.gamesPlayed = d.gamesPlayed, !.wins = d.wins,
                          !.losses = d.losses]
           ELSE r : r \in table }
    ELSE table \cup {[id |-> id, teamId |-> d.teamId, season |-> d.season,
                      gamesPlayed |-> d.gamesPlayed, wins |-> d.wins,
                      losses |-> d.losses]}

\* A variant of the player upsert that keeps the stored row on a conflict:
\* ON CONFLICT DO NOTHING.
UpsertPlayerStatsKeepOld(table, id, d) ==
    IF \E r \in table : PlayerKey(r) = PlayerKey(d)
    THEN table
    ELSE table \cup {[id |-> id, playerId |-> d.playerId, season |-> d.season,
                      seasonType |-> d.seasonType, gamesPlayed |-> d.gamesPlayed,
                      pointsPerGame |-> d.pointsPerGame]}

\* A variant of the player upsert that adds the new games to the stored ones:
\* "gamesPlayed" = player_stats."gamesPlayed" + EXCLUDED."gamesPlayed".
UpsertPlayerStatsAdding(table, id, d) ==
    IF \E r \in table : PlayerKey(r) = PlayerKey(d)
    THEN { IF PlayerKey(r) = PlayerKey(d)
           THEN [r EXCEPT !.gamesPlayed = r.gamesPlayed + d.gamesPlayed,
                          !.pointsPerGame = d.pointsPerGame]
           ELSE r : r \in table }
    ELSE table \cup {[id |-> id, playerId |-> d.playerId, season |-> d.season,
                      seasonType |-> d.seasonType, gamesPlayed |-> d.gamesPlayed,
                      pointsPerGame |-> d.pointsPerGame]}

\* DatabaseManager.create_player_stats: INSERT ... ON CONFLICT DO UPDATE SET ...
UpsertPlayerStats(table, id, d) ==
    IF \E r \in table : PlayerKey(r) = PlayerKey(d)
    THEN { IF PlayerKey(r) = PlayerKey(d)
           THEN [r EXCEPT !.gamesPlayed = d.gamesPlayed,
                          !.pointsPerGame = d.pointsPerGame]
           ELSE r : r \in table }
    ELSE table \cup {[id |-> id, playerId |-> d.playerId, season |-> d.season,
                      seasonType |-> d.seasonType, gamesPlayed |-> d.gamesPlayed,
                      pointsPerGame |-> d.pointsPerGame]}

\* gen_random_uuid() is consumed only by a row that is inserted.
IdsAfter(before, after, id) == IF Cardinality(after) > Cardinality(before) THEN id + 1 ELSE id

DbInit ==
    /\ team_stats = {}
    /\ player_stats = {}
    /\ nextId = 1
    /\ lastCall = [op |-> None]
    /\ calls = 0

SeasonIdle ==
    /\ seasonRow = [year |-> FirstYear, month |-> 1, gameType |-> "Regular Season"]
    /\ gameLabel = NoLabel
    /\ statsLabel = NoLabel

\* await db.create_team_stats(stats_data)
create_team_stats(d) ==
    /\ calls < MaxCalls
    /\ team_stats' = UpsertTeamStats(team_stats, nextId, d)
    /\ nextId' = IdsAfter(team_stats, team_stats', nextId)
    /\ lastCall' = [op |-> "create_team_stats", data |-> d]
    /\ calls' = calls + 1
    /\ UNCHANGED <<player_stats, notDb>>

\* await db.create_player_stats(stats_data)
create_player_stats(d) ==
    /\ calls < MaxCalls
    /\ player_stats' = UpsertPlayerStats(player_stats, nextId, d)
    /\ nextId' = IdsAfter(player_stats, player_stats', nextId)
    /\ lastCall' = [op |-> "create_player_stats", data |-> d]
    /\ calls' = calls + 1
    /\ UNCHANGED <<team_stats, notDb>>

CreateTeamStatsCall == \E d \in TeamStatsData : create_team_stats(d)
CreatePlayerStatsCall == \E d \in PlayerStatsData : create_player_stats(d)

StatsIdle ==
    /\ teamCsv = << >>
    /\ playerCsv = << >>
    /\ runsTeam = 0
    /\ runsPlayer = 0
    /\ written = {}
    /\ stats_created = 0
    /\ stats_skipped = 0

ImpIdle ==
    /\ impCsv = << >>
    /\ impResult = [i \in {"batch", "fast", "simple", "working", "recent"} |->
                      [done |-> FALSE, table |-> {}]]

PipeIdle ==
    /\ dataDirExists = FALSE
    /\ filesPresent = {}
    /\ pc = "idle"
    /\ importerCreated = FALSE
    /\ reported = None
    /\ connection = None
    /\ log = << >>
    /\ raised = None
    /\ imported = {}

PredIdle ==
    /\ games = {}
    /\ request = None
    /\ reqEnv = [db_error |-> FALSE, features_none |-> FALSE, predict_error |-> FALSE,
                 predicted_class |-> 0, confidence |-> 0]
    /\ response = [status_code |-> 0, detail |-> << >>]
    /\ answered = 0
    /\ model_metadata = [best_threshold |-> 0]
    /\ responseBody = [game_id |-> None]

RetrIdle ==
    /\ now = 0
    /\ files = << >>
    /\ backups = {}
    /\ retraining_log = << >>
    /\ events = << >>
    /\ ops = 0
    /\ lastOp = [op |-> None]

MonIdle ==
    /\ monNow = 0
    /\ monitoring_file = << >>
    /\ savedEver = << >>
    /\ monSaves = 0
    /\ lastSave = "none"

SvcIdle == procs = << >>
TxnIdle == in_failed_transaction = FALSE /\ lastRun = [by |-> "none"]
DupIdle ==
    /\ gamesCsv = << >>
    /\ playersCsv = << >>
    /\ games_table = {}
    /\ players_table = {}
    /\ rowId = 1
    /\ importRuns = [games |-> 0, players |-> 0]
    /\ lastImport = [of |-> "none"]

UpsertInit ==
    /\ DbInit /\ SeasonIdle /\ StatsIdle /\ ImpIdle /\ PipeIdle /\ PredIdle /\ RetrIdle
    /\ MonIdle /\ SvcIdle /\ TxnIdle /\ DupIdle
UpsertNext == CreateTeamStatsCall \/ CreatePlayerStatsCall
SpecUpsert == UpsertInit /\ [][UpsertNext]_vars

----------------------------------------------------------------------------
(* Season labelling of one CSV row by the two importers.                    *)

SeasonRows == [year : Years, month : Months, gameType : GameTypes]

\* GameImporter._process_game_row: season = self._extract_season(game_date)
ExtractSeason ==
    /\ gameLabel = NoLabel
    /\ gameLabel' = GameImporter_extract_season(seasonRow.year, seasonRow.month)
    /\ UNCHANGED <<seasonRow, statsLabel, notSeason>>

\* StatsImporter.import_*_stats_from_csv: df['season'] = ...
LabelStatsRow ==
    /\ statsLabel = NoLabel
    /\ statsLabel' = StatsImporter_season(seasonRow.year, seasonRow.month,
                                          seasonRow.gameType)
    /\ UNCHANGED <<seasonRow, gameLabel, notSeason>>

SeasonInit ==
    /\ seasonRow \in SeasonRows
    /\ gameLabel = NoLabel
    /\ statsLabel = NoLabel
    /\ DbInit
    /\ StatsIdle
    /\ ImpIdle
    /\ PipeIdle
    /\ PredIdle
    /\ RetrIdle
    /\ MonIdle
    /\ SvcIdle
    /\ TxnIdle
    /\ DupIdle
SeasonNext == ExtractSeason \/ LabelStatsRow
SpecSeason == SeasonInit /\ [][SeasonNext]_vars

----------------------------------------------------------------------------
(* StatsImporter: CSV rows -> groups -> season aggregates -> upserts.       *)

MaxRows == 2          \* rows of TeamStatistics.csv and PlayerStatistics.csv together
MaxRuns == 2          \* runs of each import explored

\* Names in groupby order (sorted).  player_mapping maps the full name
\* f"{first_name} {last_name}" to the player's id; "Ghost Player" is no key of it.
PlayerNames ==
    << [firstName |-> "Ghost",   lastName |-> "Player"],
       [firstName |-> "LeBron",  lastName |-> "James"],
       [firstName |-> "Stephen", lastName |-> "Curry"] >>

\* self.player_mapping.get(player_name)
player_mapping_get(first_name, last_name) ==
    CASE first_name = "LeBron"  /\ last_name = "James" -> "p1"
      [] first_name = "Stephen" /\ last_name = "Curry" -> "p2"
      [] OTHER -> None

\* Team names in groupby order.  "Celtics" is a key of SHORT_TEAM_MAPPING and
\* "Boston Celtics" a key of team_mapping, both of team t1; "Zephyrs" is a key
\* of neither.
TeamNames == <<"Boston Celtics", "Celtics", "Zephyrs">>

SHORT_TEAM_MAPPING_get(team_name) ==
    IF team_name = "Celtics" THEN "t1" ELSE None

team_mapping_get(team_name) ==
    IF team_name = "Boston Celtics" THEN "t1" ELSE None

\* team_id = SHORT_TEAM_MAPPING.get(team_name) or self.team_mapping.get(team_name)
TeamIdOf(team_name) ==
    IF SHORT_TEAM_MAPPING_get(team_name) # None
    THEN SHORT_TEAM_MAPPING_get(team_name)
    ELSE team_mapping_get(team_name)

\* gameType values in groupby order.
CsvGameTypes == <<"Playoffs", "Regular Season">>

\* The games of the CSV rows: a regular-season game in November of the first
\* year, a playoff game in May of the next and a regular-season game in its
\* November.
CsvGames ==
    { [year |-> FirstYear,     month |-> 11, gameType |-> "Regular Season"],
      [year |-> FirstYear + 1, month |-> 5,  gameType |-> "Playoffs"],
      [year |-> FirstYear + 1, month |-> 11, gameType |-> "Regular Season"] }

PlayerRows ==
    { [firstName |-> PlayerNames[n].firstName, lastName |-> PlayerNames[n].lastName,
       year |-> g.year, month |-> g.month, gameType |-> g.gameType, points |-> pts] :
        n \in DOMAIN PlayerNames, g \in CsvGames, pts \in {10, 30} }

TeamRows ==
    { [teamName |-> TeamNames[n], year |-> g.year, month |-> g.month,
       gameType |-> g.gameType, win |-> w] :
        n \in DOMAIN TeamNames, g \in CsvGames, w \in {0, 1} }

\* df['season'] of a row
RowSeason(row) == StatsImporter_season(row.year, row.month, row.gameType)
RowSeasonYear(row) == StatsImporter_season_year(row.year, row.month, row.gameType)

RECURSIVE GCD(_, _)
GCD(a, b) == IF b = 0 THEN a ELSE GCD(b, a % b)

RECURSIVE SumOver(_, _)
SumOver(f, S) ==
    IF S = {} THEN 0
    ELSE LET i == CHOOSE x \in S : TRUE IN f[i] + SumOver(f, S \ {i})

\* group[column].mean(), as a fraction in lowest terms
Mean(values, group) ==
    LET total == SumOver(values, group)
        n     == Cardinality(group)
        g     == GCD(total, n)
    IN  <<total \div g, n \div g>>

\* The season years of the rows, ascending (season labels sort as their years).
RECURSIVE Ascending(_)
Ascending(S) ==
    IF S = {} THEN << >>
    ELSE LET lo == CHOOSE x \in S : \A y \in S : x <= y
         IN  <<lo>> \o Ascending(S \ {lo})

\* A variant of the player grouping that leaves gameType out of the key.
PlayerGroupAnyType(csv, first_name, last_name, season, game_type) ==
    { i \in DOMAIN csv :
        /\ csv[i].firstName = first_name
        /\ csv[i].lastName = last_name
        /\ RowSeason(csv[i]) = season }

\* df.groupby(['firstName', 'lastName', 'season', 'gameType']): one group's rows
PlayerGroup(csv, first_name, last_name, season, game_type) ==
    { i \in DOMAIN csv :
        /\ csv[i].firstName = first_name
        /\ csv[i].lastName = last_name
        /\ RowSeason(csv[i]) = season
        /\ csv[i].gameType = game_type }

\* df.groupby(['teamName', 'season']): one group's rows
TeamGroup(csv, team_name, season) ==
    { i \in DOMAIN csv : csv[i].teamName = team_name /\ RowSeason(csv[i]) = season }

\* The keys of the non-empty player groups, in groupby (sorted) order.
PlayerGroupKeys(csv) ==
    LET years == Ascending({ RowSeasonYear(csv[i]) : i \in DOMAIN csv })
        nY    == Len(years)
        nT    == Len(CsvGameTypes)
        all   == [ k \in 1 .. (Len(PlayerNames) * nY * nT) |->
                     LET n == ((k - 1) \div (nY * nT)) + 1
                         y == (((k - 1) \div nT) % nY) + 1
                         t == ((k - 1) % nT) + 1
                     IN  [firstName |-> PlayerNames[n].firstName,
                          lastName  |-> PlayerNames[n].lastName,
                          season    |-> CalendarYear_season(years[y]),
                          gameType  |-> CsvGameTypes[t]] ]
        NonEmpty(k) == PlayerGroup(csv, k.firstName, k.lastName, k.season, k.gameType) # {}
    IN  SelectSeq(all, NonEmpty)

\* The keys of the non-empty team groups, in groupby (sorted) order.
TeamGroupKeys(csv) ==
    LET years == Ascending({ RowSeasonYear(csv[i]) : i \in DOMAIN csv })
        nY    == Len(years)
        all   == [ k \in 1 .. (Len(TeamNames) * nY) |->
                     LET n == ((k - 1) \div nY) + 1
                         y == ((k - 1) % nY) + 1
                     IN  [teamName |-> TeamNames[n],
                          season   |-> CalendarYear_season(years[y])] ]
        NonEmpty(k) == TeamGroup(csv, k.teamName, k.season) # {}
    IN  SelectSeq(all, NonEmpty)

\* StatsImporter._process_player_stats_group
process_player_stats_group(csv, group, player_id, season, game_type) ==
    [ playerId      |-> player_id,
      season        |-> season,
      seasonType    |-> game_type,
      gamesPlayed   |-> Cardinality(group),
      pointsPerGame |-> Mean([i \in DOMAIN csv |-> csv[i].points], group) ]

\* StatsImporter._process_team_stats_group
process_team_stats_group(csv, group, team_id, season) ==
    LET games_played == Cardinality(group)
        wins         == Cardinality({ i \in group : csv[i].win = 1 })
    IN  [ teamId      |-> team_id,
          season      |-> season,
          gamesPlayed |-> games_played,
          wins        |-> wins,
          losses      |-> games_played - wins ]

\* The loop of import_player_stats_from_csv over the groups.  st is the loop's
\* state: the table, the id source, the counters and the records written.
RECURSIVE ImportPlayerGroups(_, _, _)
ImportPlayerGroups(csv, keys, st) ==
    IF keys = << >> THEN st
    ELSE LET k          == Head(keys)
             player_id  == player_mapping_get(k.firstName, k.lastName)
             group      == PlayerGroup(csv, k.firstName, k.lastName, k.season, k.gameType)
             stats_data == process_player_stats_group(csv, group, player_id,
                                                      k.season, k.gameType)
             table      == UpsertPlayerStats(st.table, st.nextId, stats_data)
         IN  IF player_id = None
             THEN ImportPlayerGroups(csv, Tail(keys), st)
             ELSE ImportPlayerGroups(csv, Tail(keys),
                    [ table   |-> table,
                      nextId  |-> IdsAfter(st.table, table, st.nextId),
                      created |-> st.created + 1,
                      skipped |-> st.skipped,
                      written |-> st.written \cup {[by |-> "player", group |-> k,
                                                     data |-> stats_data]} ])

\* The loop of import_team_stats_from_csv over the groups.
RECURSIVE ImportTeamGroups(_, _, _)
ImportTeamGroups(csv, keys, st) ==
    IF keys = << >> THEN st
    ELSE LET k          == Head(keys)
             team_id    == TeamIdOf(k.teamName)
             group      == TeamGroup(csv, k.teamName, k.season)
             stats_data == process_team_stats_group(csv, group, team_id, k.season)
             table      == UpsertTeamStats(st.table, st.nextId, stats_data)
         IN  IF team_id = None
             THEN ImportTeamGroups(csv, Tail(keys), st)
             ELSE ImportTeamGroups(csv, Tail(keys),
                    [ table   |-> table,
                      nextId  |-> IdsAfter(st.table, table, st.nextId),
                      created |-> st.created + 1,
                      skipped |-> st.skipped,
                      written |-> st.written \cup {[by |-> "team", group |-> k,
                                                     data |-> stats_data]} ])

\* StatsImporter(...).import_team_stats_from_csv(csv_path)
import_team_stats_from_csv ==
    /\ runsTeam < MaxRuns
    /\ \E st \in { ImportTeamGroups(teamCsv, TeamGroupKeys(teamCsv),
                    [table |-> team_stats, nextId |-> nextId, created |-> 0,
                     skipped |-> 0, written |-> {}]) } :
           /\ team_stats' = st.table
           /\ nextId' = st.nextId
           /\ stats_created' = st.created
           /\ stats_skipped' = st.skipped
           /\ written' = st.written
    /\ runsTeam' = runsTeam + 1
    /\ UNCHANGED <<player_stats, teamCsv, playerCsv, runsPlayer, notStats>>

\* StatsImporter(...).import_player_stats_from_csv(csv_path)
import_player_stats_from_csv ==
    /\ runsPlayer < MaxRuns
    /\ \E st \in { ImportPlayerGroups(playerCsv, PlayerGroupKeys(playerCsv),
                    [table |-> player_stats, nextId |-> nextId, created |-> 0,
                     skipped |-> 0, written |-> {}]) } :
           /\ player_stats' = st.table
           /\ nextId' = st.nextId
           /\ stats_created' = st.created
           /\ stats_skipped' = st.skipped
           /\ written' = st.written
    /\ runsPlayer' = runsPlayer + 1
    /\ UNCHANGED <<team_stats, teamCsv, playerCsv, runsTeam, notStats>>

StatsInit ==
    /\ \E n \in 0 .. MaxRows : \E m \in 0 .. (MaxRows - n) :
          /\ teamCsv \in [1 .. n -> TeamRows]
          /\ playerCsv \in [1 .. m -> PlayerRows]
    /\ runsTeam = 0
    /\ runsPlayer = 0
    /\ written = {}
    /\ stats_created = 0
    /\ stats_skipped = 0
    /\ DbInit
    /\ SeasonIdle
    /\ ImpIdle
    /\ PipeIdle
    /\ PredIdle
    /\ RetrIdle
    /\ MonIdle
    /\ SvcIdle
    /\ TxnIdle
    /\ DupIdle
StatsNext == import_team_stats_from_csv \/ import_player_stats_from_csv
SpecStats == StatsInit /\ [][StatsNext]_vars

----------------------------------------------------------------------------
(* The stand-alone player statistics importers: batch, fast, simple,        *)
(* working and recent.  Each labels a row with its calendar year's season,  *)
(* groups by (firstName, lastName, season) and writes one record per group  *)
(* keyed by (playerId, season).  Sizes are scaled: one CSV row of the model *)
(* stands for 10,000 rows of the file, one record for 500 records.          *)

MaxImpRows == 3       \* rows of the PlayerStatistics.csv the importers are run on

start_year   == 2014  \* BatchPlayerStatsImporter.import_all_stats_batch
end_year     == 2024
current_year == 2024  \* Simple / Recent: cutoff_year = current_year - years_back
years_back   == 5
cutoff_year  == current_year - years_back

\* chunk_size, in units of 10,000 CSV rows
FastChunkSize    == 5
WorkingChunkSize == 1
RecentChunkSize  == 2
\* batch_size (1000 records), in units of 500 records
batch_size == 2

Importers == {"batch", "fast", "simple", "working", "recent"}

\* Rows inside every importer's year filter.
ImpYears == {cutoff_year, cutoff_year + 1}
ImpRows ==
    { [firstName |-> PlayerNames[n].firstName, lastName |-> PlayerNames[n].lastName,
       year |-> y, points |-> pts] :
        n \in DOMAIN PlayerNames, y \in ImpYears, pts \in {10, 30} }

\* The column seasonType is not supplied by these importers.
NULL == "NULL"

NewPlayerSeasonRow(id, d) ==
    [id |-> id, playerId |-> d.playerId, season |-> d.season, seasonType |-> NULL,
     gamesPlayed |-> d.gamesPlayed, pointsPerGame |-> d.pointsPerGame]

\* UPDATE player_stats SET ... WHERE "playerId" = %s AND season = %s
UpdateByPlayerSeason(table, d) ==
    { IF r.playerId = d.playerId /\ r.season = d.season
      THEN [r EXCEPT !.gamesPlayed = d.gamesPlayed, !.pointsPerGame = d.pointsPerGame]
      ELSE r : r \in table }

\* SELECT id FROM player_stats WHERE "playerId" = %s AND season = %s
ExistsByPlayerSeason(table, d) ==
    \E r \in table : r.playerId = d.playerId /\ r.season = d.season

\* INSERT ... ON CONFLICT ("playerId", season) DO UPDATE SET ...
\* st is [table, nextId].
UpsertByPlayerSeason(st, d) ==
    IF ExistsByPlayerSeason(st.table, d)
    THEN [table |-> UpdateByPlayerSeason(st.table, d), nextId |-> st.nextId]
    ELSE [table |-> st.table \cup {NewPlayerSeasonRow(st.nextId, d)},
          nextId |-> st.nextId + 1]

\* SimplePlayerStatsImporter._upsert_player_stats: SELECT, then UPDATE or INSERT.
\* The commit is made before the awaited None raises, so the row stays written.
upsert_player_stats(st, d) ==
    IF ExistsByPlayerSeason(st.table, d)
    THEN [table |-> UpdateByPlayerSeason(st.table, d), nextId |-> st.nextId]
    ELSE [table |-> st.table \cup {NewPlayerSeasonRow(st.nextId, d)},
          nextId |-> st.nextId + 1]

\* chunk.groupby(['firstName', 'lastName', 'season']): one group's rows
ImpGroup(chunk, first_name, last_name, season) ==
    { i \in DOMAIN chunk :
        /\ chunk[i].firstName = first_name
        /\ chunk[i].lastName = last_name
        /\ CalendarYear_season(chunk[i].year) = season }

\* The keys of the non-empty groups of a chunk, in groupby (sorted) order.
ImpGroupKeys(chunk) ==
    LET years == Ascending({ chunk[i].year : i \in DOMAIN chunk })
        nY    == Len(years)
        all   == [ k \in 1 .. (Len(PlayerNames) * nY) |->
                     LET n == ((k - 1) \div nY) + 1
                         y == ((k - 1) % nY) + 1
                     IN  [firstName |-> PlayerNames[n].firstName,
                          lastName  |-> PlayerNames[n].lastName,
                          season    |-> CalendarYear_season(years[y])] ]
        NonEmpty(k) == ImpGroup(chunk, k.firstName, k.lastName, k.season) # {}
    IN  SelectSeq(all, NonEmpty)

\* _calculate_player_stats / _calculate_player_stats_simple / _working / _recent
calculate_player_stats(chunk, group, player_id, season) ==
    [ playerId      |-> player_id,
      season        |-> season,
      gamesPlayed   |-> Cardinality(group),
      pointsPerGame |-> Mean([i \in DOMAIN chunk |-> chunk[i].points], group) ]

\* The records of a data frame's groups whose player is in player_mapping, in
\* the order the loop over the groups produces them.
GroupRecords(chunk) ==
    LET Mapped(k) == player_mapping_get(k.firstName, k.lastName) # None
        keys      == SelectSeq(ImpGroupKeys(chunk), Mapped)
    IN  [ i \in 1 .. Len(keys) |->
            calculate_player_stats(chunk,
                ImpGroup(chunk, keys[i].firstName, keys[i].lastName, keys[i].season),
                player_mapping_get(keys[i].firstName, keys[i].lastName),
                keys[i].season) ]

\* A sequence cut into consecutive pieces of at most size elements.
Pieces(s, size) ==
    [ c \in 1 .. ((Len(s) + size - 1) \div size) |->
        SubSeq(s, (c - 1) * size + 1,
               IF c * size < Len(s) THEN c * size ELSE Len(s)) ]

\* DatabaseManager.bulk_create_player_stats: executemany of the upsert.
RECURSIVE bulk_create_player_stats(_, _)
bulk_create_player_stats(st, stats_list) ==
    IF stats_list = << >> THEN st
    ELSE bulk_create_player_stats(UpsertByPlayerSeason(st, Head(stats_list)),
                                  Tail(stats_list))

\* SimplePlayerStatsImporter: one _upsert_player_stats per group.
RECURSIVE UpsertEach(_, _)
UpsertEach(st, stats_list) ==
    IF stats_list = << >> THEN st
    ELSE UpsertEach(upsert_player_stats(st, Head(stats_list)), Tail(stats_list))

\* INSERT of the records of a batch that had no row when the batch was checked.
RECURSIVE InsertEach(_, _)
InsertEach(st, stats_list) ==
    IF stats_list = << >> THEN st
    ELSE InsertEach([table |-> st.table \cup {NewPlayerSeasonRow(st.nextId, Head(stats_list))},
                     nextId |-> st.nextId + 1],
                    Tail(stats_list))

RECURSIVE UpdateEach(_, _)
UpdateEach(table, stats_list) ==
    IF stats_list = << >> THEN table
    ELSE UpdateEach(UpdateByPlayerSeason(table, Head(stats_list)), Tail(stats_list))

\* BatchPlayerStatsImporter._process_batch: every record is looked up first,
\* then the new ones are inserted and the others updated.
process_batch(st, batch_data) ==
    LET Existing(d)  == ExistsByPlayerSeason(st.table, d)
        Missing(d)   == ~ExistsByPlayerSeason(st.table, d)
        insert_data  == SelectSeq(batch_data, Missing)
        update_data  == SelectSeq(batch_data, Existing)
        inserted     == InsertEach(st, insert_data)
    IN  [table |-> UpdateEach(inserted.table, update_data), nextId |-> inserted.nextId]

\* RecentPlayerStatsImporter._process_batch_recent: the bulk write commits and
\* the awaited None then raises, so every record is written again one by one.
process_batch_recent(st, batch_data) ==
    bulk_create_player_stats(bulk_create_player_stats(st, batch_data), batch_data)

\* One data frame (the whole file or a chunk of it) written by an importer.
WriteFrame(importer, st, frame) ==
    LET batches == Pieces(GroupRecords(frame), batch_size)
        RECURSIVE Each(_, _)
        Each(s, bs) ==
            IF bs = << >> THEN s
            ELSE Each(CASE importer = "batch"  -> process_batch(s, Head(bs))
                        [] importer = "fast"   -> bulk_create_player_stats(s, Head(bs))
                        [] importer = "recent" -> process_batch_recent(s, Head(bs)),
                      Tail(bs))
    IN  CASE importer = "simple"  -> UpsertEach(st, GroupRecords(frame))
          [] importer = "working" -> bulk_create_player_stats(st, GroupRecords(frame))
          [] OTHER                -> Each(st, batches)

RECURSIVE WriteFrames(_, _, _)
WriteFrames(importer, st, frames) ==
    IF frames = << >> THEN st
    ELSE WriteFrames(importer, WriteFrame(importer, st, Head(frames)), Tail(frames))

EmptyDb == [table |-> {}, nextId |-> 1]

\* BatchPlayerStatsImporter.import_all_stats_batch
import_all_stats_batch(csv) ==
    LET InRange(row) == row.year >= start_year /\ row.year <= end_year
        filtered_df  == SelectSeq(csv, InRange)
    IN  IF Len(filtered_df) = 0 THEN EmptyDb
        ELSE WriteFrame("batch", EmptyDb, filtered_df)

\* FastPlayerStatsImporter.import_player_stats_fast
import_player_stats_fast(csv) ==
    WriteFrames("fast", EmptyDb, Pieces(csv, FastChunkSize))

\* SimplePlayerStatsImporter.import_simple_player_stats
import_simple_player_stats(csv) ==
    LET Recent(row) == row.year >= cutoff_year
        recent_df   == SelectSeq(csv, Recent)
    IN  IF Len(recent_df) = 0 THEN EmptyDb
        ELSE WriteFrame("simple", EmptyDb, recent_df)

\* WorkingPlayerStatsImporter.import_player_stats_working
import_player_stats_working(csv) ==
    WriteFrames("working", EmptyDb, Pieces(csv, WorkingChunkSize))

\* RecentPlayerStatsImporter.import_recent_player_stats
import_recent_player_stats(csv) ==
    LET Recent(row) == row.year >= cutoff_year
        recent_df   == SelectSeq(csv, Recent)
    IN  IF Len(recent_df) = 0 THEN EmptyDb
        ELSE WriteFrames("recent", EmptyDb, Pieces(recent_df, RecentChunkSize))

\* One importer is run on the file against an empty player_stats table.
RunImporter(importer, db) ==
    /\ ~impResult[importer].done
    /\ impResult' = [impResult EXCEPT ![importer] = [done |-> TRUE, table |-> db.table]]
    /\ UNCHANGED <<impCsv, notImp>>

RunBatch   == \E db \in {import_all_stats_batch(impCsv)} : RunImporter("batch", db)
RunFast    == \E db \in {import_player_stats_fast(impCsv)} : RunImporter("fast", db)
RunSimple  == \E db \in {import_simple_player_stats(impCsv)} : RunImporter("simple", db)
RunWorking == \E db \in {import_player_stats_working(impCsv)} : RunImporter("working", db)
RunRecent  == \E db \in {import_recent_player_stats(impCsv)} : RunImporter("recent", db)

ImpInit ==
    /\ \E n \in 0 .. MaxImpRows : impCsv \in [1 .. n -> ImpRows]
    /\ impResult = [i \in Importers |-> [done |-> FALSE, table |-> {}]]
    /\ DbInit
    /\ SeasonIdle
    /\ StatsIdle
    /\ PipeIdle
    /\ PredIdle
    /\ RetrIdle
    /\ MonIdle
    /\ SvcIdle
    /\ TxnIdle
    /\ DupIdle
ImpNext == RunBatch \/ RunFast \/ RunSimple \/ RunWorking \/ RunRecent
SpecImporters == ImpInit /\ [][ImpNext]_vars

----------------------------------------------------------------------------
(* import_nba_data: main and NBADataImporter.import_all_data.  The rows the *)
(* steps write are the subject of the parts above; here a step either is    *)
(* skipped because its file does not exist, returns, or raises.             *)

required_files ==
    <<"TeamHistories.csv", "Players.csv", "Games.csv",
      "TeamStatistics.csv", "PlayerStatistics.csv">>

\* The steps of import_all_data in the order of its body; step k reads
\* required_files[k].
Steps ==
    <<"_import_teams", "_import_players", "_import_games",
      "_import_team_stats", "_import_player_stats">>

Call(name)   == [ev |-> "call",   of |-> name]
Return(name) == [ev |-> "return", of |-> name]
Raise(name)  == [ev |-> "raise",  of |-> name]

\* bool(Path(data_dir) / file): a Path object defines neither __bool__ nor
\* __len__, so it is true whether or not the file exists.
PathTruth(file) == TRUE

\* main: the files for which `not Path(data_dir) / file` holds
missing_files ==
    LET Missing(file) == ~PathTruth(file)
    IN  SelectSeq(required_files, Missing)

\* main up to the creation of the importer.
main ==
    /\ pc = "main"
    /\ IF ~dataDirExists
       THEN /\ reported' = "Data directory not found"
            /\ pc' = "returned"
            /\ UNCHANGED importerCreated
       ELSE IF missing_files # << >>
       THEN /\ reported' = "Missing required files"
            /\ pc' = "returned"
            /\ UNCHANGED importerCreated
       ELSE /\ importerCreated' = TRUE
            /\ pc' = "connect"
            /\ UNCHANGED reported
    /\ UNCHANGED <<dataDirExists, filesPresent, connection, log, raised, imported, notPipe>>

\* DatabaseManager.connect, awaited first in the try block: it returns with
\* the connection open or raises.
connect ==
    /\ pc = "connect"
    /\ \E ok \in BOOLEAN :
         IF ok
         THEN /\ connection' = "open"
              /\ log' = log \o <<Call("connect"), Return("connect")>>
              /\ pc' = Steps[1]
              /\ UNCHANGED raised
         ELSE /\ log' = log \o <<Call("connect"), Raise("connect")>>
              /\ raised' = "connect"
              /\ pc' = "finally"
              /\ UNCHANGED connection
    /\ UNCHANGED <<dataDirExists, filesPresent, importerCreated, reported, imported, notPipe>>

\* Step k of import_all_data: return at once when the file does not exist,
\* otherwise run the importer, which returns or raises.
Step(k) ==
    /\ pc = Steps[k]
    /\ LET next == IF k = Len(Steps) THEN "finally" ELSE Steps[k + 1]
       IN  IF required_files[k] \notin filesPresent
           THEN /\ log' = log \o <<Call(Steps[k]), Return(Steps[k])>>
                /\ pc' = next
                /\ UNCHANGED <<raised, imported>>
           ELSE \E ok \in BOOLEAN :
                  IF ok
                  THEN /\ log' = log \o <<Call(Steps[k]), Return(Steps[k])>>
                       /\ imported' = imported \cup {Steps[k]}
                       /\ pc' = next
                       /\ UNCHANGED raised
                  ELSE /\ log' = log \o <<Call(Steps[k]), Raise(Steps[k])>>
                       /\ raised' = Steps[k]
                       /\ pc' = "finally"
                       /\ UNCHANGED imported
    /\ UNCHANGED <<dataDirExists, filesPresent, importerCreated, reported, connection, notPipe>>

import_teams        == Step(1)
import_players      == Step(2)
import_games        == Step(3)
import_team_stats   == Step(4)
import_player_stats == Step(5)

\* A finally clause that would disconnect only when nothing was raised.
disconnect_on_success_only ==
    /\ pc = "finally"
    /\ IF raised = None
       THEN /\ log' = log \o <<Call("disconnect"), Return("disconnect")>>
            /\ connection' = IF connection = "open" THEN "closed" ELSE connection
            /\ pc' = "returned"
       ELSE /\ pc' = "raised"
            /\ UNCHANGED <<log, connection>>
    /\ UNCHANGED <<dataDirExists, filesPresent, importerCreated, reported, raised,
                   imported, notPipe>>

\* The finally clause of import_all_data: DatabaseManager.disconnect, then the
\* exception, if any, goes on to the caller.
finally_disconnect ==
    /\ pc = "finally"
    /\ log' = log \o <<Call("disconnect"), Return("disconnect")>>
    /\ connection' = IF connection = "open" THEN "closed" ELSE connection
    /\ pc' = IF raised = None THEN "returned" ELSE "raised"
    /\ UNCHANGED <<dataDirExists, filesPresent, importerCreated, reported, raised,
                   imported, notPipe>>

PipeInit ==
    /\ dataDirExists \in BOOLEAN
    /\ filesPresent \in SUBSET { required_files[k] : k \in DOMAIN required_files }
    /\ (~dataDirExists) => filesPresent = {}
    /\ pc = "main"
    /\ importerCreated = FALSE
    /\ reported = None
    /\ connection = None
    /\ log = << >>
    /\ raised = None
    /\ imported = {}
    /\ DbInit
    /\ SeasonIdle
    /\ StatsIdle
    /\ ImpIdle
    /\ PredIdle
    /\ RetrIdle
    /\ MonIdle
    /\ SvcIdle
    /\ TxnIdle
    /\ DupIdle
PipeNext ==
    \/ main
    \/ connect
    \/ import_teams
    \/ import_players
    \/ import_games
    \/ import_team_stats
    \/ import_player_stats
    \/ finally_disconnect
SpecPipeline == PipeInit /\ [][PipeNext]_vars

----------------------------------------------------------------------------
(* The prediction service: POST /predict-game/{game_id}.  What the          *)
(* environment decides during a request is drawn with it: whether the       *)
(* database can be read, whether generate_game_features returns None, and  *)
(* whether predict raises, and what the model predicts with which           *)
(* confidence.  Probabilities and thresholds are in percent.                *)

MaxRequests == 2      \* requests answered in one behaviour

GameIds == {"g1", "g2"}

\* np.max(probabilities) of a two-class model, and the best_threshold values
\* of the metadata.
Confidences == {50, 65, 80}
Thresholds  == {55, 65, 90}

Environments ==
    [db_error : BOOLEAN, features_none : BOOLEAN, predict_error : BOOLEAN,
     predicted_class : {0, 1}, confidence : Confidences]

HTTPException(status_code, detail) ==
    [type |-> "HTTPException", status_code |-> status_code, detail |-> detail]
OtherException(detail) ==
    [type |-> "Exception", status_code |-> 0, detail |-> detail]

Returned(value) == [kind |-> "return", value |-> value, exc |-> None]
Raised(exc)     == [kind |-> "raise", value |-> None, exc |-> exc]

\* isinstance(e, Exception): HTTPException is a subclass of Exception.
IsException(e) == e.type \in {"Exception", "HTTPException"}

\* A predict whose recommendation would need the confidence to exceed the
\* threshold.
predict_above_threshold(game_id, env) ==
    IF env.predict_error
    THEN Raised(HTTPException(500, <<"Prediction failed: ", "error">>))
    ELSE LET threshold  == model_metadata.best_threshold
             should_bet == env.confidence > threshold
             bet_type   == IF env.predicted_class = 1 THEN "Favorite Covers"
                                                      ELSE "Underdog Covers"
         IN  Returned([ game_id         |-> game_id,
                        predicted_class |-> env.predicted_class,
                        confidence      |-> env.confidence,
                        recommendation  |->
                          [ should_bet     |-> should_bet,
                            bet_type       |-> IF should_bet THEN bet_type ELSE None,
                            confidence     |-> env.confidence,
                            recommendation |->
                              IF should_bet THEN <<"Bet on ", bet_type>>
                              ELSE <<"No bet - Confidence too low">> ] ])

\* predict: the response, or HTTPException(500) for anything raised inside.
predict(game_id, env) ==
    IF env.predict_error
    THEN Raised(HTTPException(500, <<"Prediction failed: ", "error">>))
    ELSE LET threshold  == model_metadata.best_threshold
             should_bet == env.confidence >= threshold
             bet_type   == IF env.predicted_class = 1 THEN "Favorite Covers"
                                                      ELSE "Underdog Covers"
         IN  Returned([ game_id         |-> game_id,
                        predicted_class |-> env.predicted_class,
                        confidence      |-> env.confidence,
                        recommendation  |->
                          [ should_bet     |-> should_bet,
                            bet_type       |-> IF should_bet THEN bet_type ELSE None,
                            confidence     |-> env.confidence,
                            recommendation |->
                              IF should_bet THEN <<"Bet on ", bet_type>>
                              ELSE <<"No bet - Confidence too low">> ] ])

\* The body of predict_game's try block.
predict_game_body(game_id, table, env) ==
    IF env.db_error
    THEN Raised(OtherException(<<"database error">>))
    ELSE IF game_id \notin table
    THEN Raised(HTTPException(404, <<"Game not found">>))
    ELSE IF env.features_none
    THEN Raised(HTTPException(400, <<"Unable to generate features">>))
    ELSE predict(game_id, env)

\* predict_game: try the body; `except Exception as e` turns what it raised
\* into HTTPException(500, "Game prediction failed: " + str(e)).
predict_game(game_id, table, env) ==
    LET body == predict_game_body(game_id, table, env)
    IN  IF body.kind = "raise" /\ IsException(body.exc)
        THEN Raised(HTTPException(500, <<"Game prediction failed: ">> \o body.exc.detail))
        ELSE body

\* The HTTP response the framework makes of the handler's outcome.
ResponseOf(outcome) ==
    IF outcome.kind = "return"
    THEN [status_code |-> 200, detail |-> << >>]
    ELSE IF outcome.exc.type = "HTTPException"
    THEN [status_code |-> outcome.exc.status_code, detail |-> outcome.exc.detail]
    ELSE [status_code |-> 500, detail |-> <<"Internal Server Error">>]

NoResponse == [status_code |-> 0, detail |-> << >>]
NoEnvironment ==
    [db_error |-> FALSE, features_none |-> FALSE, predict_error |-> FALSE,
     predicted_class |-> 0, confidence |-> 0]
NoBody == [game_id |-> None]

\* The JSON body of a response: the returned PredictionResponse, if any.
BodyOf(outcome) ==
    IF outcome.kind = "return" THEN outcome.value ELSE NoBody

PostPredictGame ==
    /\ answered < MaxRequests
    /\ \E game_id \in GameIds, env \in Environments :
         /\ request' = game_id
         /\ reqEnv' = env
         /\ response' = ResponseOf(predict_game(game_id, games, env))
         /\ responseBody' = BodyOf(predict_game(game_id, games, env))
    /\ answered' = answered + 1
    /\ UNCHANGED <<games, model_metadata, notPred>>

\* POST /predict: the request carries a game_id and features; the features
\* decide what the model predicts.
PostPredict ==
    /\ answered < MaxRequests
    /\ \E game_id \in GameIds, env \in Environments :
         /\ ~env.db_error
         /\ ~env.features_none
         /\ request' = game_id
         /\ reqEnv' = env
         /\ response' = ResponseOf(predict(game_id, env))
         /\ responseBody' = BodyOf(predict(game_id, env))
    /\ answered' = answered + 1
    /\ UNCHANGED <<games, model_metadata, notPred>>

PredInit ==
    /\ games \in SUBSET GameIds
    /\ request = None
    /\ reqEnv = NoEnvironment
    /\ response = NoResponse
    /\ answered = 0
    /\ model_metadata \in [best_threshold : Thresholds]
    /\ responseBody = NoBody
    /\ DbInit
    /\ SeasonIdle
    /\ StatsIdle
    /\ ImpIdle
    /\ PipeIdle
    /\ RetrIdle
    /\ MonIdle
    /\ SvcIdle
    /\ TxnIdle
    /\ DupIdle
PredNext == PostPredictGame
SpecPredictGame == PredInit /\ [][PredNext]_vars

PredictNext == PostPredict
SpecPredict == PredInit /\ [][PredictNext]_vars

----------------------------------------------------------------------------
(* scripts/retraining_pipeline.py.  Time is counted in days.  A file's      *)
(* content is the number of the training run that wrote it, 0 for a file    *)
(* that does not exist.  What check_model_performance reads, whether a      *)
(* backup can be written and how the training script ends are drawn with    *)
(* each run.                                                                *)

MaxDay == 8           \* the clock stops here
MaxOps == 3           \* pipeline commands run in one behaviour

retraining_frequency_days == 7
min_roi == 15
min_win_rate == 50    \* 0.50, in percent

\* model_names of retrain_all_models, in os.listdir order
ModelNames == <<"Random Forest", "Xgboost">>
ModelSet == { ModelNames[i] : i \in DOMAIN ModelNames }

\* A path is <<directory, kind of file, model>>.
ModelPath(m)  == <<"models", "model", m>>
ScalerPath(m) == <<"models", "scaler", m>>
MetadataPath  == <<"", "model_metadata_optimized.json", "">>
\* os.path.join('models', 'model_metadata_optimized.json')
MetadataInModels == <<"models", "model_metadata_optimized.json", "">>
Paths ==
    { ModelPath(m) : m \in ModelSet } \cup { ScalerPath(m) : m \in ModelSet }
        \cup {MetadataPath, MetadataInModels}

\* os.path.basename(file_path)
Basename(path) == <<path[2], path[3]>>

NoPath == << >>

Event(ev, m, path, ok) == [ev |-> ev, model |-> m, path |-> path, ok |-> ok]

\* create_backup's model_files
BackupSources(m) == <<ModelPath(m), ScalerPath(m), MetadataPath>>
\* rollback_model's model_files
RollbackNames(m) ==
    <<Basename(ModelPath(m)), Basename(ScalerPath(m)), Basename(MetadataPath)>>

\* rs is [files, backups, log, events]; the result is [rs, path].
create_backup(rs, model_name, t, can_write) ==
    IF ~can_write
    THEN [rs |-> [rs EXCEPT !.events = Append(@, Event("backup", model_name, NoPath, FALSE))],
          path |-> NoPath]
    ELSE LET backup_path == <<model_name, t, Cardinality(rs.backups) + 1>>
             sources     == BackupSources(model_name)
             copied      == { [name |-> Basename(sources[i]), content |-> rs.files[sources[i]]] :
                                i \in { j \in DOMAIN sources : rs.files[sources[j]] # 0 } }
         IN  [rs |-> [rs EXCEPT
                        !.backups = @ \cup {[backup_path |-> backup_path, held |-> copied]},
                        !.events  = Append(@, Event("backup", model_name, backup_path, TRUE))],
              path |-> backup_path]

\* scripts/optimized_model_training.py, when it exits with 0, has written every
\* model, every scaler and model_metadata_optimized.json.
TrainedFiles(fs) ==
    LET version == 1 + fs[MetadataPath]
    IN  [p \in Paths |-> IF p = MetadataInModels THEN fs[p] ELSE version]

\* rollback_model(model_name) with the newest backup; the result is
\* [rs, returned].  max() keeps the first of equal timestamps.
rollback_model(rs, model_name) ==
    LET model_logs == { i \in DOMAIN rs.log :
                          rs.log[i].model_name = model_name /\ rs.log[i].status = "success" }
    IN  IF model_logs = {}
        THEN [rs |-> rs, returned |-> FALSE]
        ELSE LET newest == CHOOSE i \in model_logs :
                             \A j \in model_logs :
                                 rs.log[j].timestamp < rs.log[i].timestamp
                                 \/ (rs.log[j].timestamp = rs.log[i].timestamp /\ i <= j)
                 found  == { b \in rs.backups : b.backup_path = rs.log[newest].backup_path }
             IN  IF found = {}
                 THEN [rs |-> rs, returned |-> FALSE]
                 ELSE LET backup == CHOOSE b \in found : TRUE
                          names  == RollbackNames(model_name)
                          Target(name) == <<"models", name[1], name[2]>>
                          Held(p) == { h \in backup.held :
                                         /\ \E i \in DOMAIN names : names[i] = h.name
                                         /\ Target(h.name) = p }
                          restored ==
                            [ p \in Paths |->
                                IF Held(p) # {} THEN (CHOOSE h \in Held(p) : TRUE).content
                                ELSE rs.files[p] ]
                      IN  [rs |-> [rs EXCEPT !.files = restored], returned |-> TRUE]

\* A retrain_model that would go on to the script without a backup.
retrain_without_backup_check(rs, model_name, t, env) ==
    LET called == [rs EXCEPT !.events = Append(@, Event("call retrain_model", model_name, NoPath, TRUE))]
        backup == create_backup(called, model_name, t, env.can_write)
        b      == backup.rs
    IN  IF env.script = "raises"
        THEN [b EXCEPT
                !.log = Append(@, [timestamp |-> t, model_name |-> model_name,
                                   status |-> "failed", backup_path |-> NoPath]),
                !.events = @ \o <<Event("log", model_name, NoPath, FALSE),
                                  Event("return", model_name, NoPath, FALSE)>>]
        ELSE IF env.script = "fails"
        THEN [b EXCEPT !.events = @ \o <<Event("script", model_name, backup.path, FALSE),
                                         Event("return", model_name, NoPath, FALSE)>>]
        ELSE [b EXCEPT
                !.files = TrainedFiles(@),
                !.log = Append(@, [timestamp |-> t, model_name |-> model_name,
                                   status |-> "success", backup_path |-> backup.path]),
                !.events = @ \o <<Event("script", model_name, backup.path, TRUE),
                                  Event("log", model_name, backup.path, TRUE),
                                  Event("return", model_name, NoPath, TRUE)>>]

\* retrain_model: backup, then the script, then the log entry.  The script
\* exits with 0 ("ok"), exits with another code ("fails"), or cannot be
\* started, which raises ("raises").
retrain_model(rs, model_name, t, env) ==
    LET called == [rs EXCEPT !.events = Append(@, Event("call retrain_model", model_name, NoPath, TRUE))]
        backup == create_backup(called, model_name, t, env.can_write)
        b      == backup.rs
    IN  IF backup.path = NoPath
        THEN [b EXCEPT !.events = Append(@, Event("return", model_name, NoPath, FALSE))]
        ELSE IF env.script = "raises"
        THEN [b EXCEPT
                !.log = Append(@, [timestamp |-> t, model_name |-> model_name,
                                   status |-> "failed", backup_path |-> NoPath]),
                !.events = @ \o <<Event("log", model_name, NoPath, FALSE),
                                  Event("return", model_name, NoPath, FALSE)>>]
        ELSE IF env.script = "fails"
        THEN [b EXCEPT !.events = @ \o <<Event("script", model_name, backup.path, FALSE),
                                         Event("return", model_name, NoPath, FALSE)>>]
        ELSE [b EXCEPT
                !.files = TrainedFiles(@),
                !.log = Append(@, [timestamp |-> t, model_name |-> model_name,
                                   status |-> "success", backup_path |-> backup.path]),
                !.events = @ \o <<Event("script", model_name, backup.path, TRUE),
                                  Event("log", model_name, backup.path, TRUE),
                                  Event("return", model_name, NoPath, TRUE)>>]

\* check_model_performance: None, or the newest monitored roi and win_rate.
NoPerformance == [roi |-> -1, win_rate |-> -1]
Performances ==
    { NoPerformance, [roi |-> 10, win_rate |-> 55], [roi |-> 20, win_rate |-> 45],
      [roi |-> 20, win_rate |-> 55] }

\* A should_retrain that would look at the performance first.
should_retrain_performance_first(log_data, model_name, t, performance) ==
    LET model_logs == { i \in DOMAIN log_data : log_data[i].model_name = model_name }
        Newest(i)  == \A j \in model_logs : log_data[j].timestamp <= log_data[i].timestamp
    IN  IF performance = NoPerformance
        THEN <<TRUE, "No performance data available">>
        ELSE IF performance.roi < min_roi
        THEN <<TRUE, "ROI too low">>
        ELSE IF performance.win_rate < min_win_rate
        THEN <<TRUE, "Win rate too low">>
        ELSE IF /\ model_logs # {}
                /\ \E i \in model_logs :
                     Newest(i) /\ t - log_data[i].timestamp < retraining_frequency_days
        THEN <<FALSE, "Retrained recently">>
        ELSE <<FALSE, "Performance is acceptable">>

\* should_retrain
should_retrain(log_data, model_name, t, performance) ==
    LET model_logs == { i \in DOMAIN log_data : log_data[i].model_name = model_name }
        Newest(i)  == \A j \in model_logs : log_data[j].timestamp <= log_data[i].timestamp
    IN  IF /\ model_logs # {}
           /\ \E i \in model_logs :
                Newest(i) /\ t - log_data[i].timestamp < retraining_frequency_days
        THEN <<FALSE, "Retrained recently">>
        ELSE IF performance = NoPerformance
        THEN <<TRUE, "No performance data available">>
        ELSE IF performance.roi < min_roi
        THEN <<TRUE, "ROI too low">>
        ELSE IF performance.win_rate < min_win_rate
        THEN <<TRUE, "Win rate too low">>
        ELSE <<FALSE, "Performance is acceptable">>

\* The loop of retrain_all_models over model_names.
RECURSIVE RetrainEach(_, _, _, _)
RetrainEach(rs, names, t, env) ==
    IF names = << >> THEN rs
    ELSE LET model_name == Head(names)
             decision   == should_retrain(rs.log, model_name, t, env.performance)
             checked    == [rs EXCEPT !.events =
                              Append(@, [ev |-> "should_retrain", model |-> model_name,
                                         path |-> <<decision[2]>>, ok |-> decision[1]])]
         IN  RetrainEach(IF decision[1] THEN retrain_model(checked, model_name, t, env)
                                        ELSE checked,
                         Tail(names), t, env)

RetrainEnvironments ==
    [performance : Performances, can_write : BOOLEAN,
     script : {"ok", "fails", "raises"}]

\* The pipeline's data at the start of a command; events are kept per command.
CurrentRs == [files |-> files, backups |-> backups, log |-> retraining_log, events |-> << >>]

SetRs(rs) ==
    /\ files' = rs.files
    /\ backups' = rs.backups
    /\ retraining_log' = rs.log
    /\ events' = rs.events

\* `retrain`: retrain_all_models
retrain_all_models ==
    /\ ops < MaxOps
    /\ ops' = ops + 1
    /\ \E env \in RetrainEnvironments :
         \E rs \in { RetrainEach(CurrentRs, ModelNames, now, env) } : SetRs(rs)
    /\ lastOp' = [op |-> "retrain", model |-> None, returned |-> TRUE, before |-> files,
                  log_before |-> retraining_log, at |-> now]
    /\ UNCHANGED <<now, notRetr>>

\* `schedule`: schedule_retraining, which does nothing when a success entry is
\* less than 24 hours old.
schedule_retraining ==
    /\ ops < MaxOps
    /\ ops' = ops + 1
    /\ IF \E i \in DOMAIN retraining_log :
            retraining_log[i].status = "success" /\ now - retraining_log[i].timestamp < 1
       THEN SetRs(CurrentRs)
       ELSE \E env \in RetrainEnvironments :
              \E rs \in { RetrainEach(CurrentRs, ModelNames, now, env) } : SetRs(rs)
    /\ lastOp' = [op |-> "schedule", model |-> None, returned |-> TRUE, before |-> files,
                  log_before |-> retraining_log, at |-> now]
    /\ UNCHANGED <<now, notRetr>>

\* `rollback <model_name>`
rollback ==
    /\ ops < MaxOps
    /\ ops' = ops + 1
    /\ \E model_name \in ModelSet :
         \E r \in { rollback_model(CurrentRs, model_name) } :
            /\ SetRs(r.rs)
            /\ lastOp' = [op |-> "rollback", model |-> model_name,
                          returned |-> r.returned, before |-> files,
                          log_before |-> retraining_log, at |-> now]
    /\ UNCHANGED <<now, notRetr>>

\* Time passes.
Tick ==
    /\ now < MaxDay
    /\ \E d \in {3, 4} : now + d <= MaxDay /\ now' = now + d
    /\ UNCHANGED <<files, backups, retraining_log, events, ops, lastOp, notRetr>>

RetrInit ==
    /\ now = 0
    /\ files = [p \in Paths |-> IF p = MetadataInModels THEN 0 ELSE 1]
    /\ backups = {}
    /\ retraining_log = << >>
    /\ events = << >>
    /\ ops = 0
    /\ lastOp = [op |-> None, model |-> None, returned |-> TRUE, before |-> files,
                 log_before |-> << >>, at |-> 0]
    /\ DbInit
    /\ SeasonIdle
    /\ StatsIdle
    /\ ImpIdle
    /\ PipeIdle
    /\ PredIdle
    /\ MonIdle
    /\ SvcIdle
    /\ TxnIdle
    /\ DupIdle
RetrNext == retrain_all_models \/ schedule_retraining \/ rollback \/ Tick
SpecRetraining == RetrInit /\ [][RetrNext]_vars

----------------------------------------------------------------------------
(* scripts/model_monitoring.py: ModelMonitor.save_monitoring_results.       *)
(* Time is counted in days.                                                 *)

MaxMonDay == 32       \* the monitoring clock stops here
MaxSaves  == 3        \* calls of save_monitoring_results in one behaviour

retention_days == 30

\* The results of one monitoring run: one record for each model whose
\* performance could be calculated, in model_names order, stamped when it
\* was calculated.
MonitoringResults(t) ==
    LET Stamped(names, at) == [i \in DOMAIN names |-> [timestamp |-> at, model_name |-> names[i]]]
    IN  { Stamped(names, at) :
            names \in { << >>, <<ModelNames[1]>>, <<ModelNames[2]>>, ModelNames },
            at \in {t, t - 15} }

\* save_monitoring_results dropping only what is more than 30 days old.
save_keeping_cutoff(all_before, results, t) ==
    LET all_results == all_before \o results
        cutoff_date == t - retention_days
        Kept(r)     == r.timestamp >= cutoff_date
    IN  SelectSeq(all_results, Kept)

\* The list save_monitoring_results writes: the existing results extended by
\* the new ones, without those not newer than now - 30 days.
save_monitoring_results(all_before, results, t) ==
    LET all_results == all_before \o results
        cutoff_date == t - retention_days
        Kept(r)     == r.timestamp > cutoff_date
    IN  SelectSeq(all_results, Kept)

\* A call of save_monitoring_results.  When reading or writing the file
\* raises, the error is printed and the file is left as it was.
SaveMonitoringResults ==
    /\ monSaves < MaxSaves
    /\ monSaves' = monSaves + 1
    /\ \E results \in MonitoringResults(monNow), ok \in BOOLEAN :
         IF ok
         THEN /\ monitoring_file' = save_monitoring_results(monitoring_file, results, monNow)
              /\ savedEver' = savedEver \o results
              /\ lastSave' = "saved"
         ELSE /\ lastSave' = "failed"
              /\ UNCHANGED <<monitoring_file, savedEver>>
    /\ UNCHANGED <<monNow, notMon>>

\* Time passes.
MonTick ==
    /\ \E d \in {14, 15, 16} : monNow + d <= MaxMonDay /\ monNow' = monNow + d
    /\ lastSave' = "none"
    /\ UNCHANGED <<monitoring_file, savedEver, monSaves, notMon>>

MonInit ==
    /\ monNow = 0
    /\ monitoring_file = << >>
    /\ savedEver = << >>
    /\ monSaves = 0
    /\ lastSave = "none"
    /\ DbInit
    /\ SeasonIdle
    /\ StatsIdle
    /\ ImpIdle
    /\ PipeIdle
    /\ PredIdle
    /\ RetrIdle
    /\ SvcIdle
    /\ TxnIdle
    /\ DupIdle
MonNext == SaveMonitoringResults \/ MonTick
SpecMonitoring == MonInit /\ [][MonNext]_vars

----------------------------------------------------------------------------
(* start_services.py.  Every run of the script is a process; procs[1] is    *)
(* the one the user started.                                                *)

MaxProcs == 4         \* processes created in one behaviour

\* What the __main__ block does with the arguments: it never reads sys.argv,
\* so a process started with --ml-service runs the launcher code as well and
\* start_ml_service is not called by anything.
EntryPoint(argv) == "launcher"

NewProcess(argv, parent) ==
    [argv |-> argv, runs |-> EntryPoint(argv), pc |-> "popen", parent |-> parent,
     ml_process |-> 0]

\* subprocess.Popen([sys.executable, __file__, "--ml-service"])
SpawnMlProcess(p) ==
    /\ procs[p].runs = "launcher"
    /\ procs[p].pc = "popen"
    /\ Len(procs) < MaxProcs
    /\ procs' = Append([procs EXCEPT ![p].pc = "sleep", ![p].ml_process = Len(procs) + 1],
                       NewProcess(<<"--ml-service">>, p))

\* time.sleep(5) returns
Sleep(p) ==
    /\ procs[p].pc = "sleep"
    /\ procs' = [procs EXCEPT ![p].pc = "start_nextjs_app"]

\* start_nextjs_app: npm install, then npm run dev, which keeps running; when
\* npm fails the exception handler exits with 1.
StartNextjsApp(p) ==
    /\ procs[p].pc = "start_nextjs_app"
    /\ \E npm_ok \in BOOLEAN :
         procs' = [procs EXCEPT ![p].pc = IF npm_ok THEN "npm run dev" ELSE "exit 1"]

\* KeyboardInterrupt after Popen: ml_process.terminate(), sys.exit(0).
KeyboardInterrupt(p) ==
    /\ procs[p].pc \in {"sleep", "start_nextjs_app", "npm run dev"}
    /\ LET child == procs[p].ml_process
       IN  procs' = [procs EXCEPT
                       ![p].pc = "exit 0",
                       ![child].pc = IF procs[child].pc \in {"exit 0", "exit 1"}
                                     THEN procs[child].pc ELSE "terminated"]

spawn_ml_process   == \E p \in DOMAIN procs : SpawnMlProcess(p) /\ UNCHANGED notSvc
sleep_returns      == \E p \in DOMAIN procs : Sleep(p) /\ UNCHANGED notSvc
start_nextjs_app   == \E p \in DOMAIN procs : StartNextjsApp(p) /\ UNCHANGED notSvc
keyboard_interrupt == \E p \in DOMAIN procs : KeyboardInterrupt(p) /\ UNCHANGED notSvc

SvcInit ==
    /\ procs = <<NewProcess(<< >>, 0)>>
    /\ DbInit
    /\ SeasonIdle
    /\ StatsIdle
    /\ ImpIdle
    /\ PipeIdle
    /\ PredIdle
    /\ RetrIdle
    /\ MonIdle
    /\ TxnIdle
    /\ DupIdle
SvcNext == spawn_ml_process \/ sleep_returns \/ start_nextjs_app \/ keyboard_interrupt
SpecServices == SvcInit /\ [][SvcNext]_vars

----------------------------------------------------------------------------
(* StatsImporter when cursor.execute raises.  The connection is the         *)
(* psycopg2 connection of DatabaseManager.connect (no autocommit): an error *)
(* reported by the server leaves its transaction aborted until rollback().  *)

\* What the INSERT of one group meets: it succeeds, psycopg2 rejects a
\* parameter before anything is sent, or the server reports an error.
ExecuteInputs == {"ok", "adapt_error", "server_error"}

\* self.cursor.execute(query, stats_data) on a connection whose transaction is
\* aborted (failed) or not: what the call does and the state it leaves.
cursor_execute(failed, input) ==
    CASE failed                 -> [raises |-> "InFailedSqlTransaction", failed |-> TRUE]
      [] input = "server_error" -> [raises |-> "DatabaseError", failed |-> TRUE]
      [] input = "adapt_error"  -> [raises |-> "ProgrammingError", failed |-> FALSE]
      [] OTHER                  -> [raises |-> None, failed |-> FALSE]

\* The loop of import_team_stats_from_csv, with the except branch: nothing in
\* it or in create_team_stats calls connection.rollback().
RECURSIVE ImportTeamGroupsDb(_, _, _, _)
ImportTeamGroupsDb(csv, keys, inputs, st) ==
    IF keys = << >> THEN st
    ELSE LET k          == Head(keys)
             team_id    == TeamIdOf(k.teamName)
             group      == TeamGroup(csv, k.teamName, k.season)
             stats_data == process_team_stats_group(csv, group, team_id, k.season)
             done       == cursor_execute(st.failed, Head(inputs))
             table      == UpsertTeamStats(st.table, st.nextId, stats_data)
         IN  IF team_id = None
             THEN ImportTeamGroupsDb(csv, Tail(keys), Tail(inputs), st)
             ELSE IF done.raises # None
             THEN ImportTeamGroupsDb(csv, Tail(keys), Tail(inputs),
                    [st EXCEPT !.failed   = done.failed,
                               !.skipped  = st.skipped + 1,
                               !.errors   = Append(st.errors, k),
                               !.attempts = Append(st.attempts,
                                   [group |-> k, input |-> Head(inputs), stored |-> FALSE])])
             ELSE ImportTeamGroupsDb(csv, Tail(keys), Tail(inputs),
                    [st EXCEPT !.table    = table,
                               !.nextId   = IdsAfter(st.table, table, st.nextId),
                               !.created  = st.created + 1,
                               !.written  = st.written \cup {[by |-> "team", group |-> k,
                                                               data |-> stats_data]},
                               !.attempts = Append(st.attempts,
                                   [group |-> k, input |-> Head(inputs), stored |-> TRUE])])

\* The loop of import_player_stats_from_csv, with the except branch.
RECURSIVE ImportPlayerGroupsDb(_, _, _, _)
ImportPlayerGroupsDb(csv, keys, inputs, st) ==
    IF keys = << >> THEN st
    ELSE LET k          == Head(keys)
             player_id  == player_mapping_get(k.firstName, k.lastName)
             group      == PlayerGroup(csv, k.firstName, k.lastName, k.season, k.gameType)
             stats_data == process_player_stats_group(csv, group, player_id,
                                                      k.season, k.gameType)
             done       == cursor_execute(st.failed, Head(inputs))
             table      == UpsertPlayerStats(st.table, st.nextId, stats_data)
         IN  IF player_id = None
             THEN ImportPlayerGroupsDb(csv, Tail(keys), Tail(inputs), st)
             ELSE IF done.raises # None
             THEN ImportPlayerGroupsDb(csv, Tail(keys), Tail(inputs),
                    [st EXCEPT !.failed   = done.failed,
                               !.skipped  = st.skipped + 1,
                               !.errors   = Append(st.errors, k),
                               !.attempts = Append(st.attempts,
                                   [group |-> k, input |-> Head(inputs), stored |-> FALSE])])
             ELSE ImportPlayerGroupsDb(csv, Tail(keys), Tail(inputs),
                    [st EXCEPT !.table    = table,
                               !.nextId   = IdsAfter(st.table, table, st.nextId),
                               !.created  = st.created + 1,
                               !.written  = st.written \cup {[by |-> "player", group |-> k,
                                                               data |-> stats_data]},
                               !.attempts = Append(st.attempts,
                                   [group |-> k, input |-> Head(inputs), stored |-> TRUE])])

NoRun == [by |-> "none", attempts |-> << >>, errors |-> << >>, raised |-> FALSE]

\* The state the loop starts from: the counters of a new StatsImporter.
LoopStart(table) ==
    [table |-> table, nextId |-> nextId, created |-> 0, skipped |-> 0, written |-> {},
     failed |-> in_failed_transaction, errors |-> << >>, attempts |-> << >>]

\* import_team_stats_from_csv on a database whose writes may fail
import_team_stats_db_errors ==
    /\ runsTeam + runsPlayer < MaxRuns
    /\ \E inputs \in [DOMAIN TeamGroupKeys(teamCsv) -> ExecuteInputs] :
       \E st \in { ImportTeamGroupsDb(teamCsv, TeamGroupKeys(teamCsv), inputs,
                                      LoopStart(team_stats)) } :
           /\ team_stats' = st.table
           /\ nextId' = st.nextId
           /\ stats_created' = st.created
           /\ stats_skipped' = st.skipped
           /\ written' = st.written
           /\ in_failed_transaction' = st.failed
           /\ lastRun' = [by |-> "team", attempts |-> st.attempts, errors |-> st.errors,
                          raised |-> FALSE]
    /\ runsTeam' = runsTeam + 1
    /\ UNCHANGED <<player_stats, teamCsv, playerCsv, runsPlayer, lastCall, calls, notTxn>>

\* import_player_stats_from_csv on a database whose writes may fail
import_player_stats_db_errors ==
    /\ runsTeam + runsPlayer < MaxRuns
    /\ \E inputs \in [DOMAIN PlayerGroupKeys(playerCsv) -> ExecuteInputs] :
       \E st \in { ImportPlayerGroupsDb(playerCsv, PlayerGroupKeys(playerCsv), inputs,
                                        LoopStart(player_stats)) } :
           /\ player_stats' = st.table
           /\ nextId' = st.nextId
           /\ stats_created' = st.created
           /\ stats_skipped' = st.skipped
           /\ written' = st.written
           /\ in_failed_transaction' = st.failed
           /\ lastRun' = [by |-> "player", attempts |-> st.attempts, errors |-> st.errors,
                          raised |-> FALSE]
    /\ runsPlayer' = runsPlayer + 1
    /\ UNCHANGED <<team_stats, teamCsv, playerCsv, runsTeam, lastCall, calls, notTxn>>

DbErrorsInit ==
    /\ \E n \in 0 .. MaxRows : \E m \in 0 .. (MaxRows - n) :
          /\ teamCsv \in [1 .. n -> TeamRows]
          /\ playerCsv \in [1 .. m -> PlayerRows]
    /\ runsTeam = 0
    /\ runsPlayer = 0
    /\ written = {}
    /\ stats_created = 0
    /\ stats_skipped = 0
    /\ in_failed_transaction = FALSE
    /\ lastRun = NoRun
    /\ DbInit
    /\ SeasonIdle
    /\ ImpIdle
    /\ PipeIdle
    /\ PredIdle
    /\ RetrIdle
    /\ MonIdle
    /\ SvcIdle
    /\ DupIdle
DbErrorsNext == import_team_stats_db_errors \/ import_player_stats_db_errors
SpecStatsDbErrors == DbErrorsInit /\ [][DbErrorsNext]_vars

----------------------------------------------------------------------------
(* GameImporter.import_games_from_csv and                                   *)
(* PlayerImporter.import_players_from_csv: tables games and players.        *)

MaxCsvRows == 2       \* rows of Games.csv and Players.csv together
MaxImports == 2       \* runs of each of the two imports

GameDates == {1, 2}

\* Team names of Games.csv: the first is a key of self.team_mapping, the
\* second of TEAM_MAPPING, the third of neither.
GameTeams == {"Boston Celtics", "Los Angeles Lakers", "Zephyrs"}

\* self.team_mapping.get(team) or TEAM_MAPPING.get(team)
game_team_id(team) ==
    CASE team = "Boston Celtics"     -> "t1"
      [] team = "Los Angeles Lakers" -> "t2"
      [] OTHER                       -> None

GameCsvRows == [gameDate : GameDates, home : GameTeams, away : GameTeams]

\* Players.csv rows; the last one has empty firstName and lastName.
PlayerCsvRows ==
    { [firstName |-> PlayerNames[n].firstName, lastName |-> PlayerNames[n].lastName] :
        n \in DOMAIN PlayerNames }
      \cup { [firstName |-> "", lastName |-> ""] }

\* The None returned by _process_game_row and _process_player_row.
NoData == [none |-> TRUE]

\* GameImporter._process_game_row: None when a team is not found
process_game_row(row) ==
    IF game_team_id(row.home) = None \/ game_team_id(row.away) = None
    THEN NoData
    ELSE [gameDate |-> row.gameDate, homeTeamId |-> game_team_id(row.home),
          awayTeamId |-> game_team_id(row.away)]

\* f"{gameDate}_{homeTeamId}_{awayTeamId}"
game_key(g) == <<g.gameDate, g.homeTeamId, g.awayTeamId>>

\* PlayerImporter._process_player_row: None when the name is empty
process_player_row(row) ==
    IF row.firstName = "" /\ row.lastName = ""
    THEN NoData
    ELSE [name |-> <<row.firstName, row.lastName>>]

\* DatabaseManager.create_game: a plain INSERT with a new id
create_game(table, id, game_data) ==
    table \cup {[id |-> id, gameDate |-> game_data.gameDate,
                 homeTeamId |-> game_data.homeTeamId, awayTeamId |-> game_data.awayTeamId]}

\* DatabaseManager.create_player: a plain INSERT with a new id
create_player(table, id, player_data) ==
    table \cup {[id |-> id, name |-> player_data.name]}

\* The loop of import_games_from_csv; existing_game_keys is built before the
\* loop and not changed by it.
RECURSIVE ImportGameRows(_, _, _)
ImportGameRows(rows, existing_game_keys, st) ==
    IF rows = << >> THEN st
    ELSE LET game_data == process_game_row(Head(rows))
         IN  IF game_data = NoData
             THEN ImportGameRows(Tail(rows), existing_game_keys,
                                 [st EXCEPT !.skipped = st.skipped + 1])
             ELSE IF game_key(game_data) \in existing_game_keys
             THEN ImportGameRows(Tail(rows), existing_game_keys,
                                 [st EXCEPT !.skipped = st.skipped + 1])
             ELSE ImportGameRows(Tail(rows), existing_game_keys,
                    [st EXCEPT !.table    = create_game(st.table, st.nextId, game_data),
                               !.nextId   = st.nextId + 1,
                               !.created  = st.created + 1,
                               !.creations = Append(st.creations,
                                   [data |-> game_data, table_before |-> st.table])])

\* The loop of import_players_from_csv; existing_names is built before the
\* loop and not changed by it.
RECURSIVE ImportPlayerRows(_, _, _)
ImportPlayerRows(rows, existing_names, st) ==
    IF rows = << >> THEN st
    ELSE LET player_data == process_player_row(Head(rows))
         IN  IF player_data = NoData
             THEN ImportPlayerRows(Tail(rows), existing_names,
                                   [st EXCEPT !.skipped = st.skipped + 1])
             ELSE IF player_data.name \in existing_names
             THEN ImportPlayerRows(Tail(rows), existing_names,
                                   [st EXCEPT !.skipped = st.skipped + 1])
             ELSE ImportPlayerRows(Tail(rows), existing_names,
                    [st EXCEPT !.table    = create_player(st.table, st.nextId, player_data),
                               !.nextId   = st.nextId + 1,
                               !.created  = st.created + 1,
                               !.creations = Append(st.creations,
                                   [data |-> player_data, table_before |-> st.table])])

\* GameImporter(...).import_games_from_csv(csv_path)
import_games_from_csv ==
    /\ importRuns.games < MaxImports
    /\ \E st \in { ImportGameRows(gamesCsv, { game_key(g) : g \in games_table },
                     [table |-> games_table, nextId |-> rowId, created |-> 0,
                      skipped |-> 0, creations |-> << >>]) } :
           /\ games_table' = st.table
           /\ rowId' = st.nextId
           /\ lastImport' = [of |-> "games", created |-> st.created,
                             skipped |-> st.skipped, creations |-> st.creations]
    /\ importRuns' = [importRuns EXCEPT !.games = @ + 1]
    /\ UNCHANGED <<players_table, gamesCsv, playersCsv, notDup>>

\* PlayerImporter(...).import_players_from_csv(csv_path)
import_players_from_csv ==
    /\ importRuns.players < MaxImports
    /\ \E st \in { ImportPlayerRows(playersCsv, { p.name : p \in players_table },
                     [table |-> players_table, nextId |-> rowId, created |-> 0,
                      skipped |-> 0, creations |-> << >>]) } :
           /\ players_table' = st.table
           /\ rowId' = st.nextId
           /\ lastImport' = [of |-> "players", created |-> st.created,
                             skipped |-> st.skipped, creations |-> st.creations]
    /\ importRuns' = [importRuns EXCEPT !.players = @ + 1]
    /\ UNCHANGED <<games_table, gamesCsv, playersCsv, notDup>>

DupInit ==
    /\ \E n \in 0 .. MaxCsvRows : \E k \in 0 .. (MaxCsvRows - n) :
          /\ gamesCsv \in [1 .. n -> GameCsvRows]
          /\ playersCsv \in [1 .. k -> PlayerCsvRows]
    /\ games_table = {}
    /\ players_table = {}
    /\ rowId = 1
    /\ importRuns = [games |-> 0, players |-> 0]
    /\ lastImport = [of |-> "none", created |-> 0, skipped |-> 0, creations |-> << >>]
    /\ DbInit
    /\ SeasonIdle
    /\ StatsIdle
    /\ ImpIdle
    /\ PipeIdle
    /\ PredIdle
    /\ RetrIdle
    /\ MonIdle
    /\ SvcIdle
    /\ TxnIdle
DupNext == import_games_from_csv \/ import_players_from_csv
SpecGamesPlayers == DupInit /\ [][DupNext]_vars

----------------------------------------------------------------------------
(* Properties of the upserts.                                               *)

\* C2: after any sequence of create_team_stats / create_player_stats calls,
\* team_stats holds at most one row per (teamId, season) and player_stats at
\* most one row per (playerId, season, seasonType).
C2_OneRowPerKey ==
    /\ \A r1, r2 \in team_stats : TeamKey(r1) = TeamKey(r2) => r1 = r2
    /\ \A r1, r2 \in player_stats : PlayerKey(r1) = PlayerKey(r2) => r1 = r2

\* Three calls of which one hit an existing key, in each table's case.
C2_Witness ==
    /\ calls = 3
    /\ nextId = 3
    /\ Cardinality(team_stats) = 1
    /\ Cardinality(player_stats) = 1
    /\ lastCall.op = "create_team_stats"
    /\ \E r \in team_stats : r.id = 1 /\ r.gamesPlayed = 2

\* The stat columns of a row are those of the call's argument.
HasTeamStatsOf(r, d) ==
    r.gamesPlayed = d.gamesPlayed /\ r.wins = d.wins /\ r.losses = d.losses
HasPlayerStatsOf(r, d) ==
    r.gamesPlayed = d.gamesPlayed /\ r.pointsPerGame = d.pointsPerGame

C3_Step ==
    /\ ( /\ lastCall'.op = "create_player_stats"
         /\ \E r \in player_stats : PlayerKey(r) = PlayerKey(lastCall'.data) )
       => LET d == lastCall'.data
          IN  /\ \A r \in player_stats :
                    PlayerKey(r) # PlayerKey(d) => r \in player_stats'
              /\ \A r \in player_stats :
                    PlayerKey(r) = PlayerKey(d) =>
                        \E n \in player_stats' :
                            /\ n.id = r.id
                            /\ PlayerKey(n) = PlayerKey(r)
                            /\ HasPlayerStatsOf(n, d)
              /\ Cardinality(player_stats') = Cardinality(player_stats)
              /\ team_stats' = team_stats
    /\ ( /\ lastCall'.op = "create_team_stats"
         /\ \E r \in team_stats : TeamKey(r) = TeamKey(lastCall'.data) )
       => LET d == lastCall'.data
          IN  /\ \A r \in team_stats :
                    TeamKey(r) # TeamKey(d) => r \in team_stats'
              /\ \A r \in team_stats :
                    TeamKey(r) = TeamKey(d) =>
                        \E n \in team_stats' :
                            /\ n.id = r.id
                            /\ TeamKey(n) = TeamKey(r)
                            /\ HasTeamStatsOf(n, d)
              /\ Cardinality(team_stats') = Cardinality(team_stats)
              /\ player_stats' = player_stats

\* C3: a create_player_stats (create_team_stats) call whose key already exists
\* gives that one row the new stat values, keeps its id and key columns, and
\* leaves every other row of both tables unchanged.
C3_LastWriteWins == [][C3_Step]_vars

\* The third call rewrote the row inserted first (id 1) while a second row of
\* the same player and season, of the other season type, was in the table.
C3_Witness ==
    /\ calls = 3
    /\ nextId = 3
    /\ lastCall.op = "create_player_stats"
    /\ \E r1, r2 \in player_stats :
          /\ r1.id = 1 /\ r2.id = 2
          /\ PlayerKey(r1) = PlayerKey(lastCall.data)
          /\ HasPlayerStatsOf(r1, lastCall.data)
          /\ r1.gamesPlayed # r2.gamesPlayed
          /\ r1.playerId = r2.playerId /\ r1.season = r2.season

----------------------------------------------------------------------------
(* Properties of the season labels.                                         *)

\* The two decimal digits of k, 0 <= k <= 99.
TwoDigits(k) == <<Digits[(k \div 10) + 1], Digits[(k % 10) + 1]>>

\* The label 'Y-(Y+1 mod 100)' of the season that starts in year Y.
SeasonName(Y) == Str(Y) \o <<"-">> \o TwoDigits((Y + 1) % 100)

\* C5: _extract_season labels a date of year Y 'Y-(Y+1 mod 100)' in October to
\* December and '(Y-1)-(Y mod 100)' in January to September, so all dates from
\* October of a year to September of the next carry the label of that start year.
C5_ExtractSeasonLabel ==
    gameLabel # NoLabel =>
        LET Y == seasonRow.year
            m == seasonRow.month
            start == IF m >= 10 THEN Y ELSE Y - 1
        IN  /\ (m >= 10 => gameLabel = SeasonName(Y))
            /\ (m <= 9 => gameLabel = SeasonName(Y - 1))
            /\ \A mm \in 10 .. 12 : GameImporter_extract_season(start, mm) = gameLabel
            /\ \A mm \in 1 .. 9 : GameImporter_extract_season(start + 1, mm) = gameLabel

\* A game of September 2000 was labelled: the season that started in 1999.
C5_Witness ==
    /\ seasonRow.year = 2000
    /\ seasonRow.month = 9
    /\ gameLabel = <<"1", "9", "9", "9", "-", "0", "0">>

\* C6: the season label StatsImporter gives a CSV row equals the label
\* GameImporter._extract_season gives the same game date, whatever the gameType.
C6_SameSeasonLabel ==
    (gameLabel # NoLabel /\ statsLabel # NoLabel) => statsLabel = gameLabel

----------------------------------------------------------------------------
(* Properties of StatsImporter.                                             *)

\* A table's rows by key and stat values, ids left out.
TeamView(table) ==
    { [teamId |-> r.teamId, season |-> r.season, gamesPlayed |-> r.gamesPlayed,
       wins |-> r.wins, losses |-> r.losses] : r \in table }
PlayerView(table) ==
    { [playerId |-> r.playerId, season |-> r.season, seasonType |-> r.seasonType,
       gamesPlayed |-> r.gamesPlayed, pointsPerGame |-> r.pointsPerGame] : r \in table }

C1_Step ==
    ( \/ (runsPlayer >= 1 /\ runsPlayer' = runsPlayer + 1)
      \/ (runsTeam >= 1 /\ runsTeam' = runsTeam + 1) )
    => /\ PlayerView(player_stats') = PlayerView(player_stats)
       /\ TeamView(team_stats') = TeamView(team_stats)
       /\ Cardinality(player_stats') = Cardinality(player_stats)
       /\ Cardinality(team_stats') = Cardinality(team_stats)

\* C1: a run of import_team_stats_from_csv or import_player_stats_from_csv that
\* follows an earlier run on the same CSV rows and mappings leaves team_stats
\* and player_stats with the same rows, by key, and the same stat values.
C1_ImportIdempotent == [][C1_Step]_vars

\* Both imports ran twice on files that made them write rows.
C1_Witness ==
    /\ runsPlayer = 2
    /\ runsTeam = 2
    /\ player_stats # {}
    /\ team_stats # {}

\* The rows of PlayerStatistics.csv with a group's key.
RowsOfGroup(k) ==
    { i \in DOMAIN playerCsv :
        /\ playerCsv[i].firstName = k.firstName
        /\ playerCsv[i].lastName = k.lastName
        /\ RowSeason(playerCsv[i]) = k.season
        /\ playerCsv[i].gameType = k.gameType }

\* C4: every record import_player_stats_from_csv writes aggregates rows of one
\* gameType only, stores that gameType as seasonType, and has gamesPlayed equal
\* to the number of CSV rows with its (firstName, lastName, season, gameType);
\* the stored row of its key carries those values.
C4_OneGameTypePerRecord ==
    \A w \in written :
        w.by = "player" =>
            /\ w.data.seasonType = w.group.gameType
            /\ w.data.season = w.group.season
            /\ w.data.gamesPlayed = Cardinality(RowsOfGroup(w.group))
            /\ w.data.pointsPerGame =
                   Mean([i \in DOMAIN playerCsv |-> playerCsv[i].points],
                        RowsOfGroup(w.group))
            /\ \A i \in RowsOfGroup(w.group) : playerCsv[i].gameType = w.data.seasonType
            /\ \E r \in player_stats :
                   /\ PlayerKey(r) = PlayerKey(w.data)
                   /\ HasPlayerStatsOf(r, w.data)

\* One player has a regular-season and a playoff record of the same season.
C4_Witness ==
    /\ runsPlayer >= 1
    /\ \E w1, w2 \in written :
          /\ w1.by = "player" /\ w2.by = "player"
          /\ w1.data.playerId = w2.data.playerId
          /\ w1.data.season = w2.data.season
          /\ w1.data.seasonType = "Regular Season"
          /\ w2.data.seasonType = "Playoffs"
          /\ w1.data.gamesPlayed = 1
          /\ w2.data.gamesPlayed = 1

----------------------------------------------------------------------------
(* Properties of the stand-alone importers.                                 *)

\* The (playerId, season, gamesPlayed) records of a table.
GamesView(table) ==
    { [playerId |-> r.playerId, season |-> r.season, gamesPlayed |-> r.gamesPlayed] :
        r \in table }

\* C7: run on the same CSV rows, all inside every importer's year filter, with
\* the same player mapping, the five importers leave player_stats with the
\* same set of (playerId, season, gamesPlayed) records.
C7_SameRecords ==
    \A i, j \in Importers :
        (impResult[i].done /\ impResult[j].done)
            => GamesView(impResult[i].table) = GamesView(impResult[j].table)

\* The rows of the whole CSV of one player and season.
CsvRowsOf(player_id, season) ==
    { i \in DOMAIN impCsv :
        /\ player_mapping_get(impCsv[i].firstName, impCsv[i].lastName) = player_id
        /\ CalendarYear_season(impCsv[i].year) = season }

\* C18: after import_player_stats_fast or import_player_stats_working has
\* completed, the gamesPlayed of every stored (playerId, season) record is the
\* number of rows of the entire CSV of that player and season.
C18_WholeSeasonGamesPlayed ==
    \A i \in {"fast", "working"} :
        impResult[i].done
            => \A r \in impResult[i].table :
                  r.gamesPlayed = Cardinality(CsvRowsOf(r.playerId, r.season))

----------------------------------------------------------------------------
(* Properties of import_nba_data.                                           *)

StepCalls ==
    LET IsStepCall(e) == e.ev = "call" /\ \E k \in DOMAIN Steps : Steps[k] = e.of
        calls_made    == SelectSeq(log, IsStepCall)
    IN  [i \in DOMAIN calls_made |-> calls_made[i].of]

Disconnects == Cardinality({ i \in DOMAIN log : log[i] = Call("disconnect") })

\* C8: import_all_data runs its steps in the order teams, players, games,
\* team statistics, player statistics, a step starting only after the one
\* before it (connect for the first) returned, and every execution calls
\* DatabaseManager.disconnect exactly once, as its last call: after the fifth
\* step on success, and also when connect or a step raised.
C8_StepsInOrderOneDisconnect ==
    /\ Len(StepCalls) <= Len(Steps)
    /\ \A i \in DOMAIN StepCalls : StepCalls[i] = Steps[i]
    /\ \A i \in DOMAIN log : \A k \in DOMAIN Steps :
         log[i] = Call(Steps[k])
            => /\ i > 1
               /\ log[i - 1] = Return(IF k = 1 THEN "connect" ELSE Steps[k - 1])
    /\ Disconnects <= 1
    /\ (importerCreated /\ pc \in {"returned", "raised"})
            => /\ Disconnects = 1
               /\ log[Len(log)] = Return("disconnect")
    /\ (importerCreated /\ pc = "returned")
            => /\ StepCalls = Steps
               /\ raised = None
    /\ (pc = "raised") => raised # None

C8_Witness ==
    /\ pc = "raised"
    /\ raised = "_import_games"
    /\ StepCalls = SubSeq(Steps, 1, 3)
    /\ Disconnects = 1

\* C9: whenever one of the five required CSV files is absent from the data
\* directory, main returns without creating the importer or connecting.
C9_MissingFileStopsMain ==
    (\E k \in DOMAIN required_files : required_files[k] \notin filesPresent)
        => /\ ~importerCreated
           /\ \A i \in DOMAIN log : log[i] # Call("connect")

----------------------------------------------------------------------------
(* Properties of the prediction service.                                    *)

\* C10: /predict-game answers 404 'Game not found' when no row of games has
\* the id, 400 'Unable to generate features' when feature generation returns
\* None, and 500 only for other failures.
C10_StatusCodes ==
    (request # None) =>
        /\ (~reqEnv.db_error /\ request \notin games)
              => response = [status_code |-> 404, detail |-> <<"Game not found">>]
        /\ (~reqEnv.db_error /\ request \in games /\ reqEnv.features_none)
              => response = [status_code |-> 400,
                             detail |-> <<"Unable to generate features">>]
        /\ (response.status_code = 500)
              => \/ reqEnv.db_error
                 \/ (request \in games /\ ~reqEnv.features_none /\ reqEnv.predict_error)

\* C11: every successful /predict response carries predicted_class, confidence
\* and a recommendation whose should_bet is true exactly when the confidence is
\* at least the metadata's best_threshold, whose bet_type is 'Favorite Covers'
\* for predicted_class 1 and 'Underdog Covers' otherwise when a bet is
\* recommended, and null exactly when should_bet is false.
C11_Recommendation ==
    (request # None /\ response.status_code = 200) =>
        /\ responseBody.game_id = request
        /\ responseBody.predicted_class = reqEnv.predicted_class
        /\ responseBody.confidence = reqEnv.confidence
        /\ responseBody.recommendation.should_bet
              = (responseBody.confidence >= model_metadata.best_threshold)
        /\ (responseBody.recommendation.bet_type = None) = ~responseBody.recommendation.should_bet
        /\ responseBody.recommendation.should_bet
              => responseBody.recommendation.bet_type
                   = (IF responseBody.predicted_class = 1 THEN "Favorite Covers"
                                                  ELSE "Underdog Covers")

\* A bet on the favourite recommended at a confidence equal to the threshold.
C11_Witness ==
    /\ request # None
    /\ response.status_code = 200
    /\ responseBody.confidence = model_metadata.best_threshold
    /\ responseBody.recommendation.should_bet
    /\ responseBody.recommendation.bet_type = "Favorite Covers"

----------------------------------------------------------------------------
(* Properties of the retraining pipeline.                                   *)

\* The backup event of the retrain_model call that event i belongs to.
BackupOfCall(i) ==
    { j \in 1 .. (i - 1) :
        /\ events[j].ev = "backup"
        /\ \A k \in (j + 1) .. (i - 1) : events[k].ev # "call retrain_model" }

\* C12: retrain_model runs the retraining script only after create_backup
\* succeeded in the same call; when the backup fails it returns False without
\* running the script and without a log entry; a 'success' entry is appended
\* only after the script exited with 0 and records the backup path.
C12_BackupBeforeScript ==
    /\ \A i \in DOMAIN events :
         /\ (events[i].ev = "script")
               => \E j \in BackupOfCall(i) :
                      events[j].ok /\ events[j].model = events[i].model
         /\ (events[i].ev = "backup" /\ ~events[i].ok)
               => /\ i < Len(events)
                  /\ events[i + 1] = Event("return", events[i].model, NoPath, FALSE)
         /\ (events[i].ev = "log" /\ events[i].ok)
               => /\ i > 1
                  /\ events[i - 1].ev = "script"
                  /\ events[i - 1].ok
                  /\ events[i].path # NoPath
                  /\ \E j \in BackupOfCall(i) : events[j].path = events[i].path
    /\ Len(retraining_log) - Len(lastOp.log_before)
         = Cardinality({ i \in DOMAIN events : events[i].ev = "log" })
    /\ \A i \in DOMAIN retraining_log :
         retraining_log[i].status = "success"
            => /\ retraining_log[i].backup_path # NoPath
               /\ \E b \in backups : b.backup_path = retraining_log[i].backup_path

\* A call whose backup failed, and that left the log as it was.
C12_Witness ==
    /\ lastOp.op = "retrain"
    /\ \E i \in DOMAIN events : events[i].ev = "backup" /\ ~events[i].ok
    /\ retraining_log = lastOp.log_before

\* The newest entry of model m in log_data is less than the retraining
\* frequency old at time t.
RetrainedRecently(log_data, m, t) ==
    \E i \in DOMAIN log_data :
        /\ log_data[i].model_name = m
        /\ \A j \in DOMAIN log_data :
              log_data[j].model_name = m => log_data[j].timestamp <= log_data[i].timestamp
        /\ t - log_data[i].timestamp < retraining_frequency_days

\* C13: for a model whose newest retraining-log entry is less than 7 days old
\* should_retrain returns (False, 'Retrained recently') and retrain_model is
\* not called, so two successful retrainings of one model are at least 7 days
\* apart.
C13_NotRetrainedWithinFrequency ==
    /\ \A i \in DOMAIN events :
         (events[i].ev = "should_retrain"
            /\ RetrainedRecently(lastOp.log_before, events[i].model, lastOp.at))
           => /\ ~events[i].ok
              /\ events[i].path = <<"Retrained recently">>
              /\ \A k \in DOMAIN events :
                    ~(events[k].ev = "call retrain_model"
                        /\ events[k].model = events[i].model)
    /\ \A i, j \in DOMAIN retraining_log :
         (i < j /\ retraining_log[i].model_name = retraining_log[j].model_name
                /\ retraining_log[i].status = "success"
                /\ retraining_log[j].status = "success")
           => retraining_log[j].timestamp - retraining_log[i].timestamp
                >= retraining_frequency_days

\* A model was skipped as retrained recently and had been retrained twice.
C13_Witness ==
    /\ \E i \in DOMAIN events :
         /\ events[i].ev = "should_retrain"
         /\ events[i].path = <<"Retrained recently">>
    /\ \E i, j \in DOMAIN retraining_log :
         /\ i < j
         /\ retraining_log[i].model_name = retraining_log[j].model_name
         /\ retraining_log[i].status = "success"
         /\ retraining_log[j].status = "success"

\* C14: rollback_model(m) copies every file the newest backup of m holds back
\* to the path create_backup copied it from, so those paths again hold the
\* backed-up contents; it returns False and changes no file when the log has
\* no successful retraining of m.
C14_RollbackRestores ==
    (lastOp.op = "rollback") =>
        LET m         == lastOp.model
            successes == { i \in DOMAIN lastOp.log_before :
                             /\ lastOp.log_before[i].model_name = m
                             /\ lastOp.log_before[i].status = "success" }
            sources   == BackupSources(m)
        IN  IF successes = {}
            THEN ~lastOp.returned /\ files = lastOp.before
            ELSE /\ lastOp.returned
                 /\ \E i \in successes :
                       /\ \A j \in successes :
                             lastOp.log_before[j].timestamp <= lastOp.log_before[i].timestamp
                       /\ \E b \in backups :
                             /\ b.backup_path = lastOp.log_before[i].backup_path
                             /\ \A h \in b.held : \A k \in DOMAIN sources :
                                   Basename(sources[k]) = h.name
                                      => files[sources[k]] = h.content

----------------------------------------------------------------------------
(* Properties of the monitoring results file.                               *)

\* C15: after a successful save_monitoring_results, following any sequence of
\* such calls, model_monitoring_results.json holds no entry that is 30 days
\* old or older and holds every entry ever saved that is less than 30 days
\* old.
C15_ThirtyDayRetention ==
    (lastSave = "saved") =>
        LET Recent(r) == monNow - r.timestamp < retention_days
        IN  /\ \A i \in DOMAIN monitoring_file : Recent(monitoring_file[i])
            /\ monitoring_file = SelectSeq(savedEver, Recent)

\* A save that dropped an entry exactly 30 days old and kept a younger one.
C15_Witness ==
    /\ lastSave = "saved"
    /\ \E i \in DOMAIN savedEver : monNow - savedEver[i].timestamp = retention_days
    /\ \E i \in DOMAIN monitoring_file : monNow - monitoring_file[i].timestamp = 29

----------------------------------------------------------------------------
(* Properties of start_services.py.                                         *)

\* C16: when the process the user started goes on to the Next.js app, the ML
\* service has been started exactly once, in a background process, and the run
\* creates no process beyond the launcher and that service.
C16_BothServicesStarted ==
    /\ (procs[1].pc \in {"start_nextjs_app", "npm run dev"})
          => Cardinality({ p \in DOMAIN procs : procs[p].runs = "start_ml_service" }) = 1
    /\ Len(procs) <= 2

----------------------------------------------------------------------------
(* Properties of StatsImporter when a write fails.                          *)

\* The first attempt of the last run whose own INSERT fails, 0 if there is none.
FirstFailure ==
    IF \E i \in DOMAIN lastRun.attempts : lastRun.attempts[i].input # "ok"
    THEN CHOOSE i \in DOMAIN lastRun.attempts :
           /\ lastRun.attempts[i].input # "ok"
           /\ \A j \in 1 .. (i - 1) : lastRun.attempts[j].input = "ok"
    ELSE 0

\* C17: when the write of one group fails during a run started on a working
\* connection, the error is logged, stats_skipped grows by one for it, the
\* importer does not raise, and every later group of the run whose own INSERT
\* is sound is still stored.
C17_LaterGroupsWritten ==
    FirstFailure # 0 =>
        LET i == FirstFailure
            bad == { j \in DOMAIN lastRun.attempts : lastRun.attempts[j].input # "ok" }
        IN  /\ ~lastRun.raised
            /\ \E e \in DOMAIN lastRun.errors : lastRun.errors[e] = lastRun.attempts[i].group
            /\ stats_skipped = Cardinality(bad)
            /\ \A j \in DOMAIN lastRun.attempts :
                  (j > i /\ lastRun.attempts[j].input = "ok") => lastRun.attempts[j].stored

----------------------------------------------------------------------------
(* Properties of the game and player importers.                             *)

\* C19: import_games_from_csv never creates a game whose (gameDate,
\* homeTeamId, awayTeamId) is that of a game in the games table at that moment,
\* one created earlier in the same run included, and import_players_from_csv
\* never creates a player whose name an existing player row has.
C19_NoDuplicateCreated ==
    \A i \in DOMAIN lastImport.creations :
        LET c == lastImport.creations[i]
        IN  IF lastImport.of = "games"
            THEN \A g \in c.table_before : game_key(g) # game_key(c.data)
            ELSE \A p \in c.table_before : p.name # c.data.name

====
